---- MODULE Spec2Model ----
(***************************************************************************)
(* Tool-call gateway of the LPG voice assistant (src/app.py): POST /tools  *)
(* with its idempotency guard, the Redis call state, the three domain      *)
(* handlers and the response envelope.                                      *)
(*                                                                         *)
(* A request is a process.  The store (Supabase) and the cache (Redis) are *)
(* shared by every server process, so requests interleave at each call to  *)
(* one of them; everything a request does between two such calls is local  *)
(* and belongs to the step that ends with the call.                        *)
(*                                                                         *)
(* Python str values that end up in an f-string are sequences of symbols   *)
(* (so that concatenation is concatenation); all other texts are atoms.    *)
(* A spoken sentence is a record: its kind and the values it interpolates. *)
(***************************************************************************)
EXTENDS Naturals, Integers, Sequences, FiniteSets, TLC

VARIABLES
    pc,          \* position of each request in tools() and the handler it runs
    loc,         \* locals of each request (tool_id, tool_name, params, ...)
    resp,        \* the JSONResponse of each request, once returned
    customers,   \* table "customers", rows in insertion order
    orders,      \* table "orders", rows in insertion order
    idem,        \* table "tool_call_idempotency", rows in insertion order
    tool_logs,   \* table "tool_logs", rows in insertion order
    redis,       \* Redis: key -> [value: stored call state, expires: second it is gone]
    metrics,     \* tool_calls_counter: <<tool_name, status>> -> count
    clock,       \* the clock that stamps created_at / updated_at
    faults,      \* store and cache calls that have failed so far
    req,         \* the body each request arrived with
    lim,         \* the limits of the run: requests, concurrency, failures, bodies
    probe        \* inputs and outputs of the pure-function specifications

vars == <<pc, loc, resp, req, customers, orders, idem, tool_logs, redis, metrics,
          clock, faults, lim, probe>>

(***************************************************************************)
(* Bounds of the model.                                                    *)
(***************************************************************************)
\* requests received in one run
NReq == 3
\* requests that may be between receipt and reply at the same time
MaxInFlight == 2
\* store or cache calls that may fail in one run
MaxFaults == 1
\* symbols of a generated uuid text (a real one has 36)
UuidLen == 9
\* requests received in one run when they come one after the other
FlowReq == 4
\* requests of a run that tries the handlers' argument checks
ArgsReq == 2
\* requests of a run in which time passes
TimedReq == 3
\* the seconds that pass at once, and the last second of a run
TickShort == 299
TickLong == 301
MaxClock == 1000
\* requests, and failing store or cache calls, of a run with a cache outage
OutageReq == 3
MaxOutage == 2

(***************************************************************************)
(* Program constants.                                                      *)
(***************************************************************************)
\* PRICING["6kg"]
Price6kg == 1200
\* PRICING["13kg"]
Price13kg == 2500
\* validate_quantity: if qty > 10
MaxQuantity == 10
\* str(order["id"])[:8]
ShortIdLen == 8

PRICING == [s \in {"6kg", "13kg"} |-> IF s = "6kg" THEN Price6kg ELSE Price13kg]

VALID_CYLINDER_SIZES == {"6kg", "13kg"}

(***************************************************************************)
(* Python values.                                                          *)
(***************************************************************************)
\* None, where a str (a sequence of symbols) is expected
None == <<"#None">>

\* None, where an atom, a row or a mapping is expected
Nil == [nil |-> TRUE]

\* str(x) inside an f-string
Str(x) == IF x = None THEN <<"N", "o", "n", "e">> ELSE x

\* a JSON string value and a JSON number value of an arguments object
S(x) == [t |-> "str", s |-> x, n |-> 0]

N(i) == [t |-> "int", s |-> "", n |-> i]

\* a JSON number that json.loads reads as a float: the text json.dumps writes
\* for it and what int() makes of it (1e999 is read as inf)
F(x, i) == [t |-> "float", s |-> x, n |-> i]

\* Python truthiness of a JSON value
Truthy(v) == IF v.t = "str" THEN v.s # "" ELSE IF v.t = "float" THEN v.s # "0.0" ELSE v.n # 0

\* dict.get(k, d) on an arguments object kept as its <<key, value>> items in
\* insertion order
HasKey(d, k) == \E i \in 1..Len(d) : d[i][1] = k

Get(d, k, dflt) == IF HasKey(d, k) THEN d[CHOOSE i \in 1..Len(d) : d[i][1] = k][2] ELSE dflt

(***************************************************************************)
(* generate_idempotency_key.                                               *)
(***************************************************************************)
\* the argument names in use, in the order Python sorts them
KeyNames == <<"address", "customer_id", "cylinder_size", "delivery_date",
              "email", "name", "notes", "phone", "quantity">>

KeyRank(k) == CHOOSE i \in 1..Len(KeyNames) : KeyNames[i] = k

RECURSIVE InsertSorted(_, _)
InsertSorted(item, s) ==
    IF s = <<>> THEN <<item>>
    ELSE IF KeyRank(item[1]) <= KeyRank(Head(s)[1]) THEN <<item>> \o s
    ELSE <<Head(s)>> \o InsertSorted(item, Tail(s))

RECURSIVE SortItems(_)
SortItems(d) == IF d = <<>> THEN <<>> ELSE InsertSorted(Head(d), SortItems(Tail(d)))

\* json.dumps of one value
DumpValue(v) ==
    IF v.t = "str" THEN "\"" \o v.s \o "\"" ELSE IF v.t = "float" THEN v.s ELSE ToString(v.n)

RECURSIVE DumpItems(_)
DumpItems(d) ==
    IF d = <<>> THEN <<>>
    ELSE <<"\"" \o Head(d)[1] \o "\"", ": ", DumpValue(Head(d)[2])>>
         \o (IF Tail(d) = <<>> THEN <<>> ELSE <<", ">>)
         \o DumpItems(Tail(d))

\* json.dumps(args): the items in insertion order
Dumps(d) == <<"{">> \o DumpItems(d) \o <<"}">>

\* json.dumps(args, sort_keys=True)
DumpsSorted(d) == Dumps(SortItems(d))

\* hashlib.sha256(key_string.encode()).hexdigest(), taken as injective
Sha256(text) == <<"sha256">> \o text

\* params as tools() holds them: None, or the arguments object
NoParams == [k |-> "none", v |-> <<>>]

Params(d) == [k |-> "obj", v |-> d]

\* json.dumps(params) and json.dumps(params, sort_keys=True)
DumpsParams(p) == IF p.k = "none" THEN <<"null">> ELSE Dumps(p.v)

DumpsParamsSorted(p) == IF p.k = "none" THEN <<"null">> ELSE DumpsSorted(p.v)

KeyUnsorted(call_id, tool_name, params) ==
    Sha256(Str(call_id) \o <<"|">> \o Str(tool_name) \o <<"|">> \o DumpsParams(params))

generate_idempotency_key(call_id, tool_name, params) ==
    Sha256(Str(call_id) \o <<"|">> \o Str(tool_name) \o <<"|">> \o DumpsParamsSorted(params))

(***************************************************************************)
(* Request bodies.  A body is what request.json() yields: whether it       *)
(* parses, its "message" and its top-level "callId".                       *)
(***************************************************************************)
\* conversation ids
Conv1 == <<"c", "1">>

Conv2 == <<"c", "2">>

\* tool names
CREATE == <<"create_customer">>

PLACE == <<"place_order">>

STATUS == <<"get_order_status">>

FOO == <<"foo">>

\* "arguments": absent, a JSON object, or a string holding JSON text
NoArgs == [k |-> "absent", v |-> <<>>, ok |-> TRUE]

ArgsObj(d) == [k |-> "obj", v |-> d, ok |-> TRUE]

ArgsText(d) == [k |-> "text", v |-> d, ok |-> TRUE]

\* "function": absent, not an object, or {name, arguments}
NoFunction == [k |-> "absent", name |-> None, arguments |-> NoArgs]

BadFunction == [k |-> "bad", name |-> None, arguments |-> NoArgs]

Function(name, arguments) == [k |-> "obj", name |-> name, arguments |-> arguments]

\* one element of the tool-call list
ToolCall(has_id, name, arguments, function) ==
    [has_id |-> has_id, name |-> name, arguments |-> arguments, function |-> function]

\* "message": absent, null, or an object {callId, toolCallList, toolCalls}
NoMessage == [k |-> "absent", callId |-> None, toolCallList |-> <<>>, toolCalls |-> <<>>]

NullMessage == [k |-> "null", callId |-> None, toolCallList |-> <<>>, toolCalls |-> <<>>]

Message(callId, toolCallList, toolCalls) ==
    [k |-> "obj", callId |-> callId, toolCallList |-> toolCallList, toolCalls |-> toolCalls]

Body(json, message, callId) == [json |-> json, message |-> message, callId |-> callId]

\* phones: one number in its national and its E.164 spelling
PhoneLocal == "0712345678"

PhoneE164 == "+254712345678"

ArgsCreate == <<<<"name", S("Asha")>>, <<"phone", S(PhoneLocal)>>, <<"address", S("Nairobi")>>>>

ArgsPlaceA == <<<<"phone", S(PhoneLocal)>>, <<"cylinder_size", S("6kg")>>, <<"quantity", N(2)>>>>

\* the items of ArgsPlaceA in another order
ArgsPlaceA2 == <<<<"quantity", N(2)>>, <<"cylinder_size", S("6kg")>>, <<"phone", S(PhoneLocal)>>>>

ArgsPlaceB == <<<<"phone", S(PhoneE164)>>, <<"cylinder_size", S("13KG")>>, <<"quantity", N(1)>>>>

\* no phone: the customer is named by id
ArgsPlaceC == <<<<"customer_id", S("c1")>>, <<"cylinder_size", S("6kg")>>, <<"quantity", N(1)>>>>

ArgsStatus == <<<<"phone", S(PhoneLocal)>>>>

\* a body that is not JSON, and {"message": null}
BodyNotJson == Body(FALSE, NoMessage, None)

BodyNullMessage == Body(TRUE, NullMessage, None)

\* a message with no tool call
BodyNoCalls == Body(TRUE, Message(Conv1, <<>>, <<>>), None)

\* an unknown tool: in a tool call without id, in one whose function is not
\* an object, and in a well-formed one
BodyFooNoId ==
    Body(TRUE, Message(Conv1, <<ToolCall(FALSE, FOO, ArgsObj(ArgsStatus), NoFunction)>>, <<>>), None)

BodyFooBadFunction ==
    Body(TRUE, Message(Conv1, <<ToolCall(TRUE, FOO, NoArgs, BadFunction)>>, <<>>), None)

BodyFoo ==
    Body(TRUE, Message(Conv1, <<ToolCall(TRUE, FOO, ArgsObj(ArgsStatus), NoFunction)>>, <<>>), None)

\* create_customer in the OpenAI shape with the arguments as text, inside
\* the conversation and with no conversation id
BodyCreate ==
    Body(TRUE, Message(Conv1, <<ToolCall(TRUE, None, NoArgs, Function(CREATE, ArgsText(ArgsCreate)))>>, <<>>), None)

BodyCreateNoCall ==
    Body(TRUE, Message(None, <<ToolCall(TRUE, CREATE, ArgsObj(ArgsCreate), NoFunction)>>, <<>>), None)

\* place_order: flat; under the legacy field with the conversation id at
\* the top level and its keys in another order; for the other size; for a
\* customer named by id
BodyPlaceA ==
    Body(TRUE, Message(Conv1, <<ToolCall(TRUE, PLACE, ArgsObj(ArgsPlaceA), NoFunction)>>, <<>>), None)

BodyPlaceA2 ==
    Body(TRUE, Message(None, <<>>, <<ToolCall(TRUE, None, NoArgs, Function(PLACE, ArgsText(ArgsPlaceA2)))>>), Conv1)

BodyPlaceB ==
    Body(TRUE, Message(Conv1, <<ToolCall(TRUE, PLACE, ArgsObj(ArgsPlaceB), NoFunction)>>, <<>>), None)

BodyPlaceC ==
    Body(TRUE, Message(Conv1, <<ToolCall(TRUE, PLACE, ArgsObj(ArgsPlaceC), NoFunction)>>, <<>>), None)

\* get_order_status inside the conversation and with no conversation id
BodyStatus ==
    Body(TRUE, Message(Conv1, <<ToolCall(TRUE, STATUS, ArgsObj(ArgsStatus), NoFunction)>>, <<>>), None)

BodyStatusNoCall ==
    Body(TRUE, Message(None, <<ToolCall(TRUE, STATUS, ArgsObj(ArgsStatus), NoFunction)>>, <<>>), None)

\* get_order_status with no argument, in {"function": {"arguments": {}}}
BodyStatusCached ==
    Body(TRUE, Message(Conv1, <<ToolCall(TRUE, None, NoArgs, Function(STATUS, ArgsObj(<<>>)))>>, <<>>), None)

\* a well-formed tool call of a conversation
BodyIn(call_id, tool_name, args) ==
    Body(TRUE, Message(call_id, <<ToolCall(TRUE, tool_name, ArgsObj(args), NoFunction)>>, <<>>), None)

\* the bodies a request is drawn from
Bodies ==
    { BodyNotJson, BodyNullMessage, BodyNoCalls, BodyFooNoId, BodyFooBadFunction, BodyFoo,
      BodyCreate, BodyCreateNoCall, BodyPlaceA, BodyPlaceA2, BodyPlaceB, BodyPlaceC,
      BodyStatus, BodyStatusNoCall }

\* the bodies concurrent requests are drawn from
RaceBodies ==
    { BodyNullMessage, BodyNoCalls, BodyFooNoId, BodyFooBadFunction, BodyFoo,
      BodyCreate, BodyPlaceA, BodyPlaceA2, BodyPlaceC, BodyStatus }

PlaceArgs(phone, size, quantity) ==
    <<<<"phone", S(phone)>>, <<"cylinder_size", size>>, <<"quantity", quantity>>>>

CreateArgs(name, phone, address) ==
    <<<<"name", S(name)>>, <<"phone", S(phone)>>, <<"address", S(address)>>>>

\* the bodies the handlers' argument checks are tried with: place_order with
\* a range of quantities and of sizes, with an unknown phone and with an
\* unknown customer_id; create_customer with a range of names, phones and
\* addresses and with an email
ArgBodies ==
    {BodyIn(Conv1, PLACE, PlaceArgs(PhoneLocal, S("6kg"), q)) :
        q \in { N(-1), N(0), N(1), N(10), N(11), S("2"), S("0"), S("11"), S("abc"), S(" 3 "),
                F("2.5", 2), F("0.5", 0), F("10.9", 10), F("Infinity", 0) }}
        \cup {BodyIn(Conv1, PLACE, PlaceArgs(PhoneLocal, z, N(2))) :
                z \in { S("6kg"), S("13kg"), S("13KG"), S("20kg"), S(" 6kg "), S(""), N(13) }}
        \cup {BodyIn(Conv1, PLACE, PlaceArgs("999", S("6kg"), N(2))),
              BodyIn(Conv1, PLACE, <<<<"customer_id", S("c2")>>>> \o Tail(ArgsPlaceC))}
        \cup {BodyIn(Conv1, CREATE, CreateArgs(f[1], f[2], f[3])) :
                f \in { <<"", PhoneLocal, "Nairobi">>, <<"  ", PhoneLocal, "Nairobi">>,
                        <<"Asha", "", "Nairobi">>, <<"Asha", " ", "Nairobi">>,
                        <<"Asha", PhoneLocal, "">>, <<"Asha", PhoneLocal, " ">>,
                        <<"", "", "Nairobi">>, <<"Asha", "", "">>, <<"", "", "">>,
                        <<"Asha", PhoneLocal, "Nairobi">>, <<" Asha ", PhoneE164, "Mombasa">> }}
        \cup {BodyIn(Conv1, CREATE, CreateArgs("Wanjiru", PhoneE164, "Mombasa")
                                        \o <<<<"email", S("w@example.com")>>>>)}
        \cup {BodyCreateNoCall, BodyPlaceC, BodyStatus, BodyStatusCached}

(***************************************************************************)
(* tools(), lines 337-372: the envelope parser.                            *)
(***************************************************************************)
\* a or b, on str values
OrStr(a, b) == IF a # None /\ a # <<>> THEN a ELSE b

\* a or b, on "arguments" values
ArgsTruthy(a) == a.k # "absent" /\ (a.k = "text" \/ a.v # <<>>)

\* the id the platform gave the tool call of request r
ToolCallId(r) == "call_" \o ToString(r)

\* params after "if isinstance(params, str): json.loads"; None when no
\* arguments were found
Decode(a) ==
    IF a.k = "absent" THEN NoParams
    ELSE IF a.k = "text" /\ ~a.ok THEN Params(<<>>)
    ELSE Params(a.v)

\* what lines 337-372 come to: "bad_request" (the 400 return), "raise" (an
\* exception, with whether tool_id was already bound) or "parsed"
Parse(r, b) ==
    LET m == b.message
        call_list == IF m.toolCallList # <<>> THEN m.toolCallList ELSE m.toolCalls
        tc == call_list[1]
        base == [kind |-> "raise", has_tool_id |-> FALSE, tool_id |-> "",
                 call_id |-> None, tool_name |-> None, params |-> NoParams]
    IN  IF ~b.json \/ m.k = "null" THEN base
        ELSE IF call_list = <<>> THEN [base EXCEPT !.kind = "bad_request"]
        ELSE IF ~tc.has_id THEN base
        ELSE IF (OrStr(tc.name, None) = None \/ ~ArgsTruthy(tc.arguments))
                /\ tc.function.k = "bad"
             THEN [base EXCEPT !.has_tool_id = TRUE, !.tool_id = ToolCallId(r)]
        ELSE [kind |-> "parsed", has_tool_id |-> TRUE, tool_id |-> ToolCallId(r),
              call_id |-> OrStr(m.callId, b.callId),
              tool_name |-> OrStr(tc.name, tc.function.name),
              params |-> Decode(IF ArgsTruthy(tc.arguments) THEN tc.arguments
                                ELSE tc.function.arguments)]

(***************************************************************************)
(* Texts: exceptions and the sentences spoken back.                        *)
(***************************************************************************)
\* an exception: the pieces of str(e)
Exc(text) == [raised |-> TRUE, text |-> text]

IsExc(x) == "raised" \in DOMAIN x

\* the store or the cache cannot be reached
ConnectError == Exc(<<"connection refused">>)

\* .single() on zero or several rows
NoSingleRow == Exc(<<"JSON object requested, multiple (or no) rows returned">>)

\* insert of a second customer row with the same phone
UniqueViolation ==
    Exc(<<"duplicate key value violates unique constraint", " Key (phone) already exists.">>)

\* params.get on None
NoneHasNoGet == Exc(<<"'NoneType' object has no attribute 'get'">>)

\* int(float("inf")), and .lower() on a value that is no str
OverflowError == Exc(<<"cannot convert float infinity to integer">>)

NoLower == Exc(<<"'int' object has no attribute 'lower'">>)

\* RuntimeError(f"Database error: {str(e)}")
DatabaseError(e) == Exc(<<"Database error: ">> \o e.text)

\* the needles the code looks for, found in one piece of text once lower-cased
Needles(piece) ==
    IF piece = "Database error: " THEN {"database"}
    ELSE IF piece = "duplicate key value violates unique constraint" THEN {"unique constraint"}
    ELSE IF piece = " Key (phone) already exists." THEN {"already exists"}
    ELSE {}

\* needle in str(e).lower()
InLower(needle, e) == \E i \in 1..Len(e.text) : needle \in Needles(e.text[i])

Say(text) == [say |-> text]

\* the unknown-tool sentence without the name
UnknownToolNameless(tool_name) == [say |-> "Unknown tool: ", tool_name |-> <<>>]

UnknownTool(tool_name) == [say |-> "Unknown tool: ", tool_name |-> Str(tool_name)]

(***************************************************************************)
(* Library functions.                                                      *)
(***************************************************************************)
\* str.strip()
Strip(x) ==
    IF x \in {" ", "  "} THEN "" ELSE IF x = " Asha " THEN "Asha"
    ELSE IF x = " 6kg " THEN "6kg" ELSE x

\* str.lower()
Lower(x) == IF x = "13KG" THEN "13kg" ELSE IF x = "6KG" THEN "6kg" ELSE x

\* phone.strip().replace(" ", "").replace("-", "")
Squeeze(x) == IF x = "0712 345 678" THEN "0712345678" ELSE Strip(x)

\* normalize_phone: E.164 for a valid Kenyan number, else the squeezed input
normalize_phone(phone) ==
    LET p == Squeeze(phone)
    IN  IF p \in {PhoneLocal, PhoneE164} THEN PhoneE164 ELSE p

\* int(quantity) of a str: the value, or a ValueError
IntText == [x \in {"-1", "0", "1", "2", "10", "11", " 3 "} |->
              IF x = "-1" THEN -1 ELSE IF x = "0" THEN 0 ELSE IF x = "1" THEN 1
              ELSE IF x = "2" THEN 2 ELSE IF x = "10" THEN 10 ELSE IF x = "11" THEN 11
              ELSE 3]

validate_cylinder_size(size) ==
    LET normalized == Strip(Lower(size))
    IN  IF normalized \in VALID_CYLINDER_SIZES
        THEN [ok |-> TRUE, size |-> normalized, msg |-> Nil]
        ELSE [ok |-> FALSE, size |-> "",
              msg |-> Say("Invalid cylinder size. Please choose either 6kg or 13kg.")]

\* lines 190-200; int() of an infinite float raises OverflowError, which the
\* except (ValueError, TypeError) lets through
validate_quantity(quantity) ==
    LET numeric == quantity.t \in {"int", "float"} \/ quantity.s \in DOMAIN IntText
        qty == IF quantity.t = "str" THEN IntText[quantity.s] ELSE quantity.n
    IN  IF quantity.t = "float" /\ quantity.s = "Infinity" THEN OverflowError
        ELSE IF ~numeric
        THEN [ok |-> FALSE, qty |-> 0, msg |-> Say("Please provide a valid number for quantity.")]
        ELSE IF qty <= 0
        THEN [ok |-> FALSE, qty |-> 0, msg |-> Say("Quantity must be greater than zero.")]
        ELSE IF qty > MaxQuantity
        THEN [ok |-> FALSE, qty |-> 0,
              msg |-> Say("For orders above 10 cylinders, please contact our sales team directly.")]
        ELSE [ok |-> TRUE, qty |-> qty, msg |-> Nil]

(***************************************************************************)
(* The store and the cache.                                                *)
(***************************************************************************)
\* a nullable column or argument that is null
Null == "#null"

\* the text of the n-th uuid the store generates for a table
Uuid(tag, n) ==
    <<tag, ToString(n)>> \o [i \in 1..(UuidLen - 3) |-> "0"] \o <<ToString(n)>>

\* the uuid an id argument spells
UuidOf(cid) == IF cid = "c1" THEN Uuid("c", 1) ELSE IF cid = "c2" THEN Uuid("c", 2) ELSE <<cid>>

\* str(order["id"])[:8]
ShortId(id) == SubSeq(id, 1, ShortIdLen)

\* rows of a table that satisfy .eq(column, value)
Where(table, column, value) == SelectSeq(table, LAMBDA row : row[column] = value)

\* the rows, oldest first, cut to one
OldestFirst(rows) == IF rows = <<>> THEN <<>> ELSE <<rows[1]>>

\* .order("created_at", desc=True).limit(1): the rows, newest first, cut to one
NewestFirst(rows) ==
    IF rows = <<>> THEN <<>>
    ELSE <<rows[CHOOSE i \in 1..Len(rows) :
                  \A j \in 1..Len(rows) : rows[j].created_at <= rows[i].created_at]>>

\* f"call:{call_id}"
CallKey(call_id) == <<"call:">> \o Str(call_id)

\* set_call_state(..., ttl: int = 600)
TTL == 600

\* a key that lives for ever
RedisKept(key) == key \in DOMAIN redis

\* redis_client.get finds the key: it was set and its time to live is not over
RedisLive(key) == key \in DOMAIN redis /\ clock < redis[key].expires

\* a write that keeps the stored keys it does not carry
RedisSetexMerging(key, ttl, value) ==
    [k \in DOMAIN redis \cup {key} |->
        IF k = key
        THEN [value |-> IF RedisLive(key)
                        THEN [f \in DOMAIN redis[key].value \cup DOMAIN value |->
                                IF f \in DOMAIN value THEN value[f] ELSE redis[key].value[f]]
                        ELSE value,
              expires |-> clock + ttl]
        ELSE redis[k]]

\* redis_client.setex(key, ttl, value)
RedisSetex(key, ttl, value) ==
    [k \in DOMAIN redis \cup {key} |->
        IF k = key THEN [value |-> value, expires |-> clock + ttl] ELSE redis[k]]

\* get_call_state once redis_client.get has answered (or failed)
get_call_state(call_id, fail) ==
    IF fail \/ ~RedisLive(CallKey(call_id)) THEN <<>> ELSE redis[CallKey(call_id)].value

\* an update that forgets what was stored
UpdatesOnly(state, updates) == updates

\* state.update(updates)
Updated(state, updates) ==
    [k \in DOMAIN state \cup DOMAIN updates |->
        IF k \in DOMAIN updates THEN updates[k] ELSE state[k]]

\* dict.get(k, "") on a call state
StateGet(state, k) == IF k \in DOMAIN state THEN state[k] ELSE ""

\* Counter.labels(...).inc()
Inc(m, label) ==
    IF label \in DOMAIN m THEN [m EXCEPT ![label] = @ + 1] ELSE m @@ (label :> 1)

Count(m, label) == IF label \in DOMAIN m THEN m[label] ELSE 0

(***************************************************************************)
(* Replies.                                                                *)
(***************************************************************************)
\* {"results": [{"toolCallId": tool_id, "result": result}]}
Envelope(status, tool_id, result) ==
    [status |-> status,
     content |-> [results |-> <<[toolCallId |-> tool_id, result |-> result]>>]]

\* {"error": text}
BareError(status, text) == [status |-> status, content |-> [error |-> text]]

ErrMsg == Say("I'm sorry - there was an unexpected error. Please try again.")

\* a top-level except that never builds the results envelope
TopLevelBare(has_tool_id, tool_id) == BareError(500, ErrMsg)

\* lines 438-447: the top-level except of tools()
TopLevelExcept(has_tool_id, tool_id) ==
    IF has_tool_id THEN Envelope(500, tool_id, ErrMsg) ELSE BareError(500, ErrMsg)

\* lines 348-353
NoToolCalls == BareError(400, Say("No tool calls in payload"))

\* lines 399-411: the except of the router, on what the handler let through
RouterExcept(e) ==
    IF InLower("database", e)
    THEN Say("I'm having trouble accessing the database. Please try again in a moment.")
    ELSE IF InLower("unique constraint", e)
    THEN Say("It looks like you already have an account. Let me check your existing information.")
    ELSE [say |-> "I encountered an error processing your request: ", error |-> e.text]

RouterCatch(out) == IF IsExc(out) THEN RouterExcept(out) ELSE out

\* lines 489-494
CreateExcept(e) ==
    IF InLower("already exists", e)
    THEN Say("It looks like you already have an account with this phone number. You can proceed to place an order.")
    ELSE [say |-> "I'm sorry - there was an issue creating your account: ", error |-> e.text]

CreateCatch(out) == IF IsExc(out) THEN CreateExcept(out) ELSE out

\* lines 570-573
PlaceExcept(e) == [say |-> "I'm sorry - there was an issue placing your order: ", error |-> e.text]

PlaceCatch(out) == IF IsExc(out) THEN PlaceExcept(out) ELSE out

\* lines 707-710
StatusExcept(e) ==
    [say |-> "I'm sorry, there was an issue checking your order status: ", error |-> e.text]

StatusCatch(out) == IF IsExc(out) THEN StatusExcept(out) ELSE out

\* lines 482-487
Created(name) ==
    [say |-> "Perfect! Your account has been created successfully, ", name |-> name]

WelcomeBack(name) == [say |-> "Welcome back, ", name |-> name]

\* a reply that takes every returned row for a new one
CreateReplyNew(customer) == Created(customer.name)

CreateReply(customer) ==
    IF customer.created_at # customer.updated_at
    THEN WelcomeBack(customer.name) ELSE Created(customer.name)

\* lines 560-566
PlaceReply(customer, order, quantity, size, delivery_date) ==
    [say |-> "Excellent! Your order has been placed successfully, ",
     name |-> customer.name, short_id |-> ShortId(order.id),
     quantity |-> quantity, size |-> size,
     delivery_text |-> IF delivery_date # Null THEN delivery_date ELSE "tomorrow",
     total |-> order.total_amount_kes]

\* lines 638-644
StatusText(status) ==
    IF status = "pending" THEN "is being processed"
    ELSE IF status = "confirmed" THEN "has been confirmed"
    ELSE IF status = "out_for_delivery" THEN "is out for delivery"
    ELSE IF status = "delivered" THEN "has been delivered"
    ELSE IF status = "cancelled" THEN "has been cancelled"
    ELSE "is in progress"

\* lines 630-649
StatusReply(customer, order) ==
    [say |-> "I found your most recent order, ",
     name |-> customer.name, short_id |-> ShortId(order.id),
     quantity |-> order.quantity, size |-> order.cylinder_size,
     total |-> order.total_amount_kes, status_text |-> StatusText(order.status),
     deliver_on |-> IF order.delivery_date = Null THEN "None" ELSE order.delivery_date]

NoOrders(name) == [say |-> "I don't see any orders on file yet.", name |-> name]

(***************************************************************************)
(* The requests.                                                           *)
(***************************************************************************)
Reqs == 1..(IF NReq > FlowReq THEN NReq ELSE FlowReq)

InFlight == Cardinality({r \in Reqs : pc[r] \notin {"idle", "done"}})

\* a store or cache call may fail while the run has failures left
MayFail == IF faults < lim.faults THEN {FALSE, TRUE} ELSE {FALSE}

Failed(fail) == faults' = IF fail THEN faults + 1 ELSE faults

NoLoc ==
    [tool_id |-> "", call_id |-> None, tool_name |-> None, params |-> NoParams,
     key |-> <<>>, phone |-> "", size |-> "", quantity |-> 0,
     customer |-> Nil, order |-> Nil, state |-> <<>>, updates |-> <<>>,
     pending |-> Nil, result |-> Nil]

\* the state of a fresh deployment: no request yet, empty tables, empty cache
Fresh ==
    /\ pc = [r \in Reqs |-> "idle"]
    /\ loc = [r \in Reqs |-> NoLoc]
    /\ resp = [r \in Reqs |-> Nil]
    /\ req = [r \in Reqs |-> Nil]
    /\ customers = <<>>
    /\ orders = <<>>
    /\ idem = <<>>
    /\ tool_logs = <<>>
    /\ redis = <<>>
    /\ metrics = <<>>
    /\ clock = 1
    /\ faults = 0

\* concurrent requests, and calls of the store and the cache that may fail
Init ==
    /\ Fresh
    /\ lim = [reqs |-> NReq, in_flight |-> MaxInFlight, faults |-> MaxFaults,
              bodies |-> RaceBodies]
    /\ probe = Nil

\* two requests, one after the other, tried with every argument of ArgBodies
ArgsInit ==
    /\ Fresh
    /\ lim = [reqs |-> ArgsReq, in_flight |-> 1, faults |-> 0, bodies |-> ArgBodies]
    /\ probe = Nil

\* one request after the other, store and cache answering every call
FlowInit ==
    /\ Fresh
    /\ lim = [reqs |-> FlowReq, in_flight |-> 1, faults |-> 0, bodies |-> Bodies]
    /\ probe = Nil

\* the request moves on inside tools() or its handler
Goto(r, l, p) ==
    /\ loc' = [loc EXCEPT ![r] = l]
    /\ pc' = [pc EXCEPT ![r] = p]
    /\ UNCHANGED <<resp, metrics>>

\* the request returns a reply
Reply(r, l, response, m) ==
    /\ loc' = [loc EXCEPT ![r] = l]
    /\ pc' = [pc EXCEPT ![r] = "done"]
    /\ resp' = [resp EXCEPT ![r] = response]
    /\ metrics' = m

\* the handler is over with `out` (a sentence it returned, or an exception
\* it let through): lines 399-418, up to the call of save_idempotency
Finish(r, l, out) ==
    LET caught == RouterCatch(out)
        m == IF IsExc(out) THEN Inc(metrics, <<l.tool_name, "error">>) ELSE metrics
    IN  IF IsExc(caught)
        THEN Reply(r, l, TopLevelExcept(TRUE, l.tool_id), metrics)
        ELSE /\ loc' = [loc EXCEPT ![r] = [l EXCEPT !.result = caught]]
             /\ pc' = [pc EXCEPT ![r] = "save"]
             /\ metrics' = Inc(m, <<l.tool_name, "success">>)
             /\ UNCHANGED resp

\* lines 337-372: read the body, find the tool call, fingerprint it
Receive(r) ==
    /\ pc[r] = "idle"
    /\ r <= lim.reqs
    /\ \A q \in Reqs : q < r => pc[q] # "idle"
    /\ InFlight < lim.in_flight
    /\ \E b \in lim.bodies :
        LET p == Parse(r, b)
            l == [NoLoc EXCEPT !.tool_id = p.tool_id, !.call_id = p.call_id,
                               !.tool_name = p.tool_name, !.params = p.params,
                               !.key = generate_idempotency_key(p.call_id, p.tool_name, p.params)]
        IN  /\ req' = [req EXCEPT ![r] = b]
            /\ IF p.kind = "bad_request" THEN Reply(r, NoLoc, NoToolCalls, metrics)
               ELSE IF p.kind = "raise"
               THEN Reply(r, NoLoc, TopLevelExcept(p.has_tool_id, p.tool_id), metrics)
               ELSE Goto(r, l, "check")
    /\ UNCHANGED <<customers, orders, idem, tool_logs, redis, clock, faults, lim, probe>>

\* a lookup that never finds a record
LookupAlwaysMisses(key, fail) == Nil

\* check_idempotency once the select has answered (or failed): lines 93-108
check_idempotency(key, fail) ==
    LET rows == Where(idem, "idempotency_key", key)
    IN  IF fail \/ Len(rows) # 1 THEN Nil ELSE rows[1].result

\* a replay answered with the bare result, outside the results envelope
HitReplyBare(tool_id, existing_result) ==
    [status |-> 200, content |-> [result |-> existing_result]]

\* lines 378-385: the reply to a request that was processed before
HitReply(tool_id, existing_result) == Envelope(200, tool_id, existing_result)

\* lines 374-385: look the fingerprint up; a hit is the reply
CheckIdempotency(r) ==
    /\ pc[r] = "check"
    /\ \E fail \in MayFail :
        LET existing_result == check_idempotency(loc[r].key, fail)
        IN  /\ Failed(fail)
            /\ IF existing_result # Nil
               THEN Reply(r, loc[r], HitReply(loc[r].tool_id, existing_result),
                          Inc(metrics, <<loc[r].tool_name, "duplicate">>))
               ELSE Goto(r, loc[r], "route")
    /\ UNCHANGED <<req, customers, orders, idem, tool_logs, redis, clock, lim, probe>>

(***************************************************************************)
(* The handlers, up to their first call of the store or the cache.         *)
(***************************************************************************)
\* params.get(k, "") used as a str (.strip(), .lower())
StrArg(params, k) == Get(params.v, k, S("")).s

\* if call_id:
HasCallId(call_id) == call_id # None /\ call_id # <<>>

\* the checks of create_customer without the .strip() of the name
CreatePreludeNoStrip(l) ==
    IF l.params.k = "none" THEN NoneHasNoGet
    ELSE IF StrArg(l.params, "name") = ""
    THEN Say("I need your name to create an account. Could you please tell me your name?")
    ELSE IF normalize_phone(StrArg(l.params, "phone")) = ""
    THEN Say("I need your phone number to create an account. Could you please provide it?")
    ELSE IF Strip(StrArg(l.params, "address")) = ""
    THEN Say("I need your delivery address to create an account. Could you please provide your address?")
    ELSE [go |-> TRUE]

\* lines 452-464; "go" when the customer is to be upserted
CreatePrelude(l) ==
    IF l.params.k = "none" THEN NoneHasNoGet
    ELSE IF Strip(StrArg(l.params, "name")) = ""
    THEN Say("I need your name to create an account. Could you please tell me your name?")
    ELSE IF normalize_phone(StrArg(l.params, "phone")) = ""
    THEN Say("I need your phone number to create an account. Could you please provide it?")
    ELSE IF Strip(StrArg(l.params, "address")) = ""
    THEN Say("I need your delivery address to create an account. Could you please provide your address?")
    ELSE [go |-> TRUE]

\* lines 502-516, with phone_raw resolved; "go" when the customer is to be
\* looked up
PlaceValidate(l, phone_raw) ==
    LET raw == Get(l.params.v, "cylinder_size", S(""))
        sz == validate_cylinder_size(Lower(raw.s))
        qt == validate_quantity(Get(l.params.v, "quantity", N(0)))
    IN  IF normalize_phone(phone_raw) = ""
        THEN Say("I need your phone number to place the order. Could you please provide it?")
        ELSE IF raw.t # "str" THEN NoLower
        ELSE IF ~sz.ok THEN sz.msg
        ELSE IF IsExc(qt) THEN qt
        ELSE IF ~qt.ok THEN qt.msg
        ELSE [go |-> TRUE, size |-> sz.size, quantity |-> qt.qty]

\* lines 582-591, with the call state read; "go" when the customer is to be
\* looked up
StatusPhone(l, call_state) ==
    LET given == StrArg(l.params, "phone")
        phone_raw == IF given # "" THEN given ELSE StateGet(call_state, "customer_phone")
    IN  IF normalize_phone(phone_raw) = ""
        THEN Say("I need your phone number to check your order status.")
        ELSE [go |-> TRUE, phone |-> normalize_phone(phone_raw)]

IsGo(x) == "go" \in DOMAIN x

\* the request goes on to pc p if the handler's local code said "go", and is
\* over with what it returned or raised otherwise
GoOrFinish(r, l, out, p) == IF IsGo(out) THEN Goto(r, l, p) ELSE Finish(r, l, out)

\* lines 502-516 of place_order once phone_raw is known
PlaceGo(r, l, phone_raw) ==
    LET out == PlaceCatch(PlaceValidate(l, phone_raw))
    IN  GoOrFinish(r, IF IsGo(out)
                      THEN [l EXCEPT !.phone = normalize_phone(phone_raw),
                                     !.size = out.size, !.quantity = out.quantity]
                      ELSE l,
                   out, "po_select")

\* lines 387-398: the router, and the handler it picks up to its first call
Route(r) ==
    /\ pc[r] = "route"
    /\ LET l == loc[r]
       IN  IF l.tool_name = CREATE
           THEN LET out == CreatePrelude(l)
                IN  GoOrFinish(r, [l EXCEPT !.phone = IF IsGo(out)
                                               THEN normalize_phone(StrArg(l.params, "phone"))
                                               ELSE ""],
                               CreateCatch(out), "cc_select")
           ELSE IF l.tool_name = PLACE
           THEN IF l.params.k = "none" THEN Finish(r, l, PlaceCatch(NoneHasNoGet))
                ELSE IF Truthy(Get(l.params.v, "phone", S("")))
                THEN PlaceGo(r, l, StrArg(l.params, "phone"))
                ELSE Goto(r, l, "po_state")
           ELSE IF l.tool_name = STATUS
           THEN IF l.params.k = "none" THEN Finish(r, l, StatusCatch(NoneHasNoGet))
                ELSE IF HasCallId(l.call_id) THEN Goto(r, l, "gs_state")
                ELSE LET out == StatusPhone(l, <<>>)
                     IN  GoOrFinish(r, IF IsGo(out) THEN [l EXCEPT !.phone = out.phone] ELSE l,
                                    out, "gs_cust")
           ELSE /\ loc' = [loc EXCEPT ![r].result = UnknownTool(l.tool_name)]
                /\ pc' = [pc EXCEPT ![r] = "save"]
                /\ metrics' = Inc(Inc(metrics, <<l.tool_name, "unknown">>),
                                  <<l.tool_name, "success">>)
                /\ UNCHANGED resp
    /\ UNCHANGED <<req, customers, orders, idem, tool_logs, redis, clock, faults, lim, probe>>

(***************************************************************************)
(* create_customer.                                                        *)
(***************************************************************************)
\* the email argument as db_upsert_customer gets it (line 455)
EmailArg(params) ==
    IF Truthy(Get(params.v, "email", S(""))) THEN Strip(StrArg(params, "email")) ELSE Null

\* lines 209-214: db_upsert_customer looks for the phone
CreateSelect(r) ==
    /\ pc[r] = "cc_select"
    /\ \E fail \in MayFail :
        /\ Failed(fail)
        /\ IF fail THEN Finish(r, loc[r], CreateCatch(DatabaseError(ConnectError)))
           ELSE IF Where(customers, "phone", loc[r].phone) # <<>>
           THEN Goto(r, loc[r], "cc_update")
           ELSE Goto(r, loc[r], "cc_insert")
    /\ UNCHANGED <<req, customers, orders, idem, tool_logs, redis, clock, lim, probe>>

\* lines 469-475: what create_customer writes to the call state
CreateUpdates(customer, phone) ==
    ("customer_id" :> customer.id) @@ ("customer_phone" :> phone)
        @@ ("customer_name" :> customer.name)

\* lines 469-487, with the row db_upsert_customer returned
CreateDone(r, l, customer) ==
    IF HasCallId(l.call_id)
    THEN Goto(r, [l EXCEPT !.customer = customer,
                           !.updates = CreateUpdates(customer, l.phone),
                           !.pending = CreateReply(customer)], "state_get")
    ELSE Finish(r, [l EXCEPT !.customer = customer], CreateReply(customer))

\* the row after .update({...}).eq("phone", phone)
UpdatedCustomer(row, params, now) ==
    [row EXCEPT !.name = Strip(StrArg(params, "name")),
                !.address = Strip(StrArg(params, "address")),
                !.email = EmailArg(params),
                !.updated_at = now]

\* lines 217-231: the phone is known, its row is updated
CreateUpdate(r) ==
    /\ pc[r] = "cc_update"
    /\ \E fail \in MayFail :
        LET l == loc[r]
            after == [i \in 1..Len(customers) |->
                        IF customers[i].phone = l.phone
                        THEN UpdatedCustomer(customers[i], l.params, clock)
                        ELSE customers[i]]
            data == Where(after, "phone", l.phone)
        IN  /\ Failed(fail)
            /\ IF fail
               THEN /\ Finish(r, l, CreateCatch(DatabaseError(ConnectError)))
                    /\ UNCHANGED <<customers, clock>>
               ELSE /\ customers' = after
                    /\ clock' = clock + 1
                    /\ IF data = <<>>
                       THEN Finish(r, l, CreateCatch(DatabaseError(Exc(<<"Failed to update customer">>))))
                       ELSE CreateDone(r, l, data[1])
    /\ UNCHANGED <<req, orders, idem, tool_logs, redis, lim, probe>>

\* the timestamp the customers table gives created_at and updated_at of a
\* row inserted without them: the same instant for both
DefaultStamp(now) == now

\* the row the store makes of an inserted customer
NewCustomer(params, phone, n, now) ==
    [id |-> Uuid("c", n), name |-> Strip(StrArg(params, "name")), phone |-> phone,
     address |-> Strip(StrArg(params, "address")), email |-> EmailArg(params),
     created_at |-> DefaultStamp(now), updated_at |-> DefaultStamp(now)]

\* a customers table without a unique phone
PhoneNeverTaken(phone) == FALSE

\* the customers table has a unique phone: the store refuses the insert of a
\* row whose phone another row has
PhoneTaken(phone) == Where(customers, "phone", phone) # <<>>

\* lines 233-248: the phone is new, a row is inserted; the store refuses a
\* second row with the same phone
CreateInsert(r) ==
    /\ pc[r] = "cc_insert"
    /\ \E fail \in MayFail :
        LET l == loc[r]
            row == NewCustomer(l.params, l.phone, Len(customers) + 1, clock)
        IN  /\ Failed(fail)
            /\ IF fail
               THEN /\ Finish(r, l, CreateCatch(DatabaseError(ConnectError)))
                    /\ UNCHANGED <<customers, clock>>
               ELSE IF PhoneTaken(l.phone)
               THEN /\ Finish(r, l, CreateCatch(DatabaseError(UniqueViolation)))
                    /\ UNCHANGED <<customers, clock>>
               ELSE /\ customers' = Append(customers, row)
                    /\ clock' = clock + 1
                    /\ CreateDone(r, l, row)
    /\ UNCHANGED <<req, orders, idem, tool_logs, redis, lim, probe>>

(***************************************************************************)
(* update_call_state: get_call_state, then set_call_state.                 *)
(***************************************************************************)
\* lines 147-148: read the state and merge the updates into it
StateGetStep(r) ==
    /\ pc[r] = "state_get"
    /\ \E fail \in MayFail :
        /\ Failed(fail)
        /\ Goto(r, [loc[r] EXCEPT !.state = Updated(get_call_state(loc[r].call_id, fail),
                                                    loc[r].updates)],
                "state_set")
    /\ UNCHANGED <<req, customers, orders, idem, tool_logs, redis, clock, lim, probe>>

\* a set_call_state that lets the failure of the cache through
StateSetStepRaises(r) ==
    /\ pc[r] = "state_set"
    /\ \E fail \in MayFail :
        /\ Failed(fail)
        /\ redis' = IF fail THEN redis
                    ELSE RedisSetex(CallKey(loc[r].call_id), TTL, loc[r].state)
        /\ Finish(r, loc[r], IF fail THEN RouterCatch(ConnectError) ELSE loc[r].pending)
    /\ UNCHANGED <<req, customers, orders, idem, tool_logs, clock, lim, probe>>

\* line 149: write the merged state back; the handler then returns
StateSetStep(r) ==
    /\ pc[r] = "state_set"
    /\ \E fail \in MayFail :
        /\ Failed(fail)
        /\ redis' = IF fail THEN redis
                    ELSE RedisSetex(CallKey(loc[r].call_id), TTL, loc[r].state)
        /\ Finish(r, loc[r], loc[r].pending)
    /\ UNCHANGED <<req, customers, orders, idem, tool_logs, clock, lim, probe>>

(***************************************************************************)
(* place_order.                                                            *)
(***************************************************************************)
\* lines 500-501: no phone argument, so the cached customer_phone of the
\* conversation is read, and the customer_id argument is consulted after it
PlaceState(r) ==
    /\ pc[r] = "po_state"
    /\ \E fail \in MayFail :
        LET l == loc[r]
            cached == StateGet(get_call_state(l.call_id, fail), "customer_phone")
        IN  /\ Failed(fail)
            /\ IF cached # "" THEN PlaceGo(r, l, cached)
               ELSE IF StrArg(l.params, "customer_id") = "" THEN PlaceGo(r, l, "")
               ELSE Goto(r, l, "po_cid")
    /\ UNCHANGED <<req, customers, orders, idem, tool_logs, redis, clock, lim, probe>>

\* a customer id that names nobody
NoPhoneFromId(cid, fail) == ""

\* phone_from_customer_id once the select has answered (or failed): lines
\* 293-305
phone_from_customer_id(cid, fail) ==
    LET rows == Where(customers, "id", UuidOf(cid))
    IN  IF fail \/ Len(rows) # 1 THEN "" ELSE rows[1].phone

\* lines 500-501: the phone of the customer the customer_id argument names
PlaceCustomerId(r) ==
    /\ pc[r] = "po_cid"
    /\ \E fail \in MayFail :
        /\ Failed(fail)
        /\ PlaceGo(r, loc[r], phone_from_customer_id(StrArg(loc[r].params, "customer_id"), fail))
    /\ UNCHANGED <<req, customers, orders, idem, tool_logs, redis, clock, lim, probe>>

\* a place_order that makes the account it does not find
PlaceSelectCreates(r) ==
    /\ pc[r] = "po_select"
    /\ \E fail \in MayFail :
        LET l == loc[r]
            data == Where(customers, "phone", l.phone)
            row == NewCustomer(l.params, l.phone, Len(customers) + 1, clock)
        IN  /\ Failed(fail)
            /\ IF fail
               THEN /\ Finish(r, l, Say("I'm having trouble finding your account. Please try again or let me create a new account for you."))
                    /\ UNCHANGED customers
               ELSE IF data = <<>>
               THEN /\ customers' = Append(customers, row)
                    /\ Goto(r, [l EXCEPT !.customer = row], "po_insert")
               ELSE /\ Goto(r, [l EXCEPT !.customer = data[1]], "po_insert")
                    /\ UNCHANGED customers
    /\ UNCHANGED <<req, orders, idem, tool_logs, redis, clock, lim, probe>>

\* lines 521-541: the customer must exist already
PlaceSelect(r) ==
    /\ pc[r] = "po_select"
    /\ \E fail \in MayFail :
        LET l == loc[r]
            data == Where(customers, "phone", l.phone)
        IN  /\ Failed(fail)
            /\ IF fail
               THEN Finish(r, l, Say("I'm having trouble finding your account. Please try again or let me create a new account for you."))
               ELSE IF data = <<>>
               THEN Finish(r, l, Say("I couldn't find your account. Please let me create one for you first. Could you please provide your full name and delivery address?"))
               ELSE Goto(r, [l EXCEPT !.customer = data[1]], "po_insert")
    /\ UNCHANGED <<req, customers, orders, idem, tool_logs, redis, clock, lim, probe>>

\* params.get("delivery_date")
DeliveryArg(params) == Get(params.v, "delivery_date", S(Null)).s

\* db_insert_order with the unit price as the total
NewOrderUnitTotal(customer_id, cylinder_size, quantity, delivery_date, notes, n, now) ==
    [id |-> Uuid("o", n), customer_id |-> customer_id, cylinder_size |-> cylinder_size,
     quantity |-> quantity, price_kes |-> PRICING[cylinder_size],
     total_amount_kes |-> PRICING[cylinder_size],
     delivery_date |-> delivery_date, notes |-> notes, status |-> "pending",
     created_at |-> now]

\* lines 260-270: the row db_insert_order sends, as the store keeps it
NewOrder(customer_id, cylinder_size, quantity, delivery_date, notes, n, now) ==
    [id |-> Uuid("o", n), customer_id |-> customer_id, cylinder_size |-> cylinder_size,
     quantity |-> quantity, price_kes |-> PRICING[cylinder_size],
     total_amount_kes |-> PRICING[cylinder_size] * quantity,
     delivery_date |-> delivery_date, notes |-> notes, status |-> "pending",
     created_at |-> now]

\* lines 552-558: what place_order writes to the call state
PlaceUpdates(customer, order) ==
    ("last_order_id" :> order.id) @@ ("last_order_total" :> order.total_amount_kes)
        @@ ("customer_id" :> customer.id)

\* lines 543-566: the order is inserted
PlaceInsert(r) ==
    /\ pc[r] = "po_insert"
    /\ \E fail \in MayFail :
        LET l == loc[r]
            order == NewOrder(l.customer.id, l.size, l.quantity, DeliveryArg(l.params),
                              StrArg(l.params, "notes"), Len(orders) + 1, clock)
            reply == PlaceReply(l.customer, order, l.quantity, l.size, DeliveryArg(l.params))
        IN  /\ Failed(fail)
            /\ IF fail
               THEN /\ Finish(r, l, PlaceCatch(DatabaseError(ConnectError)))
                    /\ UNCHANGED <<orders, clock>>
               ELSE /\ orders' = Append(orders, order)
                    /\ clock' = clock + 1
                    /\ IF HasCallId(l.call_id)
                       THEN Goto(r, [l EXCEPT !.order = order,
                                              !.updates = PlaceUpdates(l.customer, order),
                                              !.pending = reply], "state_get")
                       ELSE Finish(r, [l EXCEPT !.order = order], reply)
    /\ UNCHANGED <<req, customers, idem, tool_logs, redis, lim, probe>>

(***************************************************************************)
(* get_order_status.                                                       *)
(***************************************************************************)
\* line 579: the call state is read when the request has a conversation id
StatusState(r) ==
    /\ pc[r] = "gs_state"
    /\ \E fail \in MayFail :
        LET l == loc[r]
            out == StatusPhone(l, get_call_state(l.call_id, fail))
        IN  /\ Failed(fail)
            /\ GoOrFinish(r, IF IsGo(out) THEN [l EXCEPT !.phone = out.phone] ELSE l,
                          out, "gs_cust")
    /\ UNCHANGED <<req, customers, orders, idem, tool_logs, redis, clock, lim, probe>>

\* lines 596-610: the customer of the phone; .single() raises unless there
\* is exactly one row
StatusCustomer(r) ==
    /\ pc[r] = "gs_cust"
    /\ \E fail \in MayFail :
        LET l == loc[r]
            data == Where(customers, "phone", l.phone)
        IN  /\ Failed(fail)
            /\ IF fail THEN Finish(r, l, StatusCatch(ConnectError))
               ELSE IF Len(data) # 1 THEN Finish(r, l, StatusCatch(NoSingleRow))
               ELSE Goto(r, [l EXCEPT !.customer = data[1]], "gs_order")
    /\ UNCHANGED <<req, customers, orders, idem, tool_logs, redis, clock, lim, probe>>

\* lines 613-628 once the select has answered: the customer's newest order
LatestOrder(customer_id) == NewestFirst(Where(orders, "customer_id", customer_id))

\* lines 612-649: the newest order of the customer, spoken
StatusOrder(r) ==
    /\ pc[r] = "gs_order"
    /\ \E fail \in MayFail :
        LET l == loc[r]
            data == LatestOrder(l.customer.id)
        IN  /\ Failed(fail)
            /\ IF fail THEN Finish(r, l, StatusCatch(ConnectError))
               ELSE IF data = <<>> THEN Finish(r, l, NoOrders(l.customer.name))
               ELSE Finish(r, [l EXCEPT !.order = data[1]], StatusReply(l.customer, data[1]))
    /\ UNCHANGED <<req, customers, orders, idem, tool_logs, redis, clock, lim, probe>>

(***************************************************************************)
(* The end of tools(): record, log, reply.                                 *)
(***************************************************************************)
\* lines 113-120: the row save_idempotency inserts
IdemRow(l) ==
    [idempotency_key |-> l.key, tool_name |-> l.tool_name, call_id |-> l.call_id,
     parameters |-> DumpsParams(l.params), result |-> l.result]

\* the table after the insert: the store keeps one row per idempotency_key
\* and refuses a second one
IdemInsert(table, row) ==
    IF Where(table, "idempotency_key", row.idempotency_key) # <<>> THEN table
    ELSE Append(table, row)

\* a save that overwrites the record of a fingerprint already recorded
SaveUpsert(table, l, fail) ==
    IF fail THEN table
    ELSE IF Where(table, "idempotency_key", l.key) = <<>> THEN Append(table, IdemRow(l))
    ELSE [i \in 1..Len(table) |->
            IF table[i].idempotency_key = l.key THEN IdemRow(l) ELSE table[i]]

\* save_idempotency: the insert, its failure swallowed (lines 110-123)
save_idempotency(table, l, fail) == IF fail THEN table ELSE IdemInsert(table, IdemRow(l))

\* lines 420-421
Save(r) ==
    /\ pc[r] = "save"
    /\ \E fail \in MayFail :
        /\ Failed(fail)
        /\ idem' = save_idempotency(idem, loc[r], fail)
        /\ Goto(r, loc[r], "log")
    /\ UNCHANGED <<req, customers, orders, tool_logs, redis, clock, lim, probe>>

\* lines 154-160: the row log_tool_call inserts
LogRow(l) ==
    [tool_name |-> l.tool_name, parameters |-> DumpsParams(l.params),
     result |-> l.result, call_id |-> l.call_id]

\* lines 423-436: log the call (a failure is swallowed) and reply
Log(r) ==
    /\ pc[r] = "log"
    /\ \E fail \in MayFail :
        /\ Failed(fail)
        /\ tool_logs' = IF fail THEN tool_logs ELSE Append(tool_logs, LogRow(loc[r]))
        /\ Reply(r, loc[r], Envelope(200, loc[r].tool_id, loc[r].result), metrics)
    /\ UNCHANGED <<req, customers, orders, idem, redis, clock, lim, probe>>

\* one step of request r
Step(r) ==
    \/ Receive(r)
    \/ CheckIdempotency(r)
    \/ Route(r)
    \/ CreateSelect(r)
    \/ CreateUpdate(r)
    \/ CreateInsert(r)
    \/ StateGetStep(r)
    \/ StateSetStep(r)
    \/ PlaceState(r)
    \/ PlaceCustomerId(r)
    \/ PlaceSelect(r)
    \/ PlaceInsert(r)
    \/ StatusState(r)
    \/ StatusCustomer(r)
    \/ StatusOrder(r)
    \/ Save(r)
    \/ Log(r)

Next == \E r \in Reqs : Step(r)

Spec == Init /\ [][Next]_vars

FlowSpec == FlowInit /\ [][Next]_vars

ArgsSpec == ArgsInit /\ [][Next]_vars

\* requests one after the other while up to MaxOutage calls of the store or
\* the cache fail
OutageInit ==
    /\ Fresh
    /\ lim = [reqs |-> OutageReq, in_flight |-> 1, faults |-> MaxOutage,
              bodies |-> {BodyCreate, BodyCreateNoCall, BodyPlaceA, BodyPlaceC, BodyStatus}]
    /\ probe = Nil

OutageSpec == OutageInit /\ [][Next]_vars

(***************************************************************************)
(* Time passing between the steps of the requests.                         *)
(***************************************************************************)
\* requests of two conversations whose call state is written and read, one
\* after the other, for two customers: the second has another phone and is
\* created in the second conversation and ordered for in the first
TimedInit ==
    /\ Fresh
    /\ lim = [reqs |-> TimedReq, in_flight |-> 1, faults |-> 0,
              bodies |-> {BodyCreate, BodyIn(Conv2, CREATE, ArgsCreate), BodyPlaceA,
                          BodyPlaceC, BodyStatusCached,
                          BodyIn(Conv2, CREATE, CreateArgs("Baraka", "+254722000000", "Mombasa")),
                          BodyIn(Conv1, PLACE, PlaceArgs("+254722000000", S("6kg"), N(1)))}]
    /\ probe = Nil

\* seconds pass
Tick ==
    /\ \E d \in {TickShort, TickLong} :
        /\ clock + d <= MaxClock
        /\ clock' = clock + d
    /\ UNCHANGED <<pc, loc, resp, req, customers, orders, idem, tool_logs, redis, metrics,
                   faults, lim, probe>>

TimedSpec == TimedInit /\ [][Next \/ Tick]_vars


(***************************************************************************)
(* What the claims are stated with.                                        *)
(***************************************************************************)
Done(r) == pc[r] = "done"

\* the request's envelope parsed: a tool-call list, an id, a name, arguments
Parsed(r) == req[r] # Nil /\ Parse(r, req[r]).kind = "parsed"

\* the rows recorded under a fingerprint
Recorded(key) == Where(idem, "idempotency_key", key)

\* the reply {results: [{toolCallId, result}]} with this status
IsEnvelope(response, status, tool_id, result) ==
    response = [status |-> status,
                content |-> [results |-> <<[toolCallId |-> tool_id, result |-> result]>>]]

\* the request was answered from the idempotency record, its handler not run
WasReplayed(r) ==
    /\ Done(r) /\ Parsed(r)
    /\ loc[r].result = Nil
    /\ resp[r].status = 200

(***************************************************************************)
(* generate_idempotency_key on its own: two (conversation id, tool name,   *)
(* arguments) triples are drawn and fingerprinted.                         *)
(***************************************************************************)
\* the arguments objects of at most two items, in every insertion order
KeyParams ==
    LET items == { <<"phone", S(PhoneLocal)>>, <<"quantity", N(1)>>, <<"quantity", N(2)>>,
                   <<"quantity", S("2")>> }
    IN  {NoParams, Params(<<>>)}
            \cup {Params(<<i>>) : i \in items}
            \cup {Params(<<x[1], x[2]>>) : x \in {y \in items \X items : y[1][1] # y[2][1]}}

\* the triples: no conversation id, an id, the id "None" and an id with a
\* "|" in it; two tools and a tool name with a "|" in it
KeyTriples ==
    [call_id : {None, Conv1, <<"N", "o", "n", "e">>, Conv1 \o <<"|">> \o STATUS},
     tool_name : {PLACE, STATUS, STATUS \o <<"|">> \o PLACE},
     params : KeyParams]

KeyInit ==
    /\ Fresh
    /\ lim = [reqs |-> 0, in_flight |-> 0, faults |-> 0, bodies |-> {}]
    /\ probe \in [a : KeyTriples, b : KeyTriples, done : {FALSE}, key_a : {<<>>}, key_b : {<<>>}]

\* both triples are fingerprinted
Fingerprint ==
    /\ ~probe.done
    /\ probe' = [probe EXCEPT
                    !.done = TRUE,
                    !.key_a = generate_idempotency_key(probe.a.call_id, probe.a.tool_name, probe.a.params),
                    !.key_b = generate_idempotency_key(probe.b.call_id, probe.b.tool_name, probe.b.params)]
    /\ UNCHANGED <<pc, loc, resp, req, customers, orders, idem, tool_logs, redis,
                   metrics, clock, faults, lim>>

KeySpec == KeyInit /\ [][Fingerprint]_vars

\* the same key/value pairs, in whatever order
SameMapping(p, q) ==
    /\ p.k = q.k
    /\ {p.v[i] : i \in 1..Len(p.v)} = {q.v[i] : i \in 1..Len(q.v)}

\* C2: the fingerprint depends only on the conversation id, the tool name
\* and the key/value pairs of the arguments: two triples that agree on these
\* get the same digest, whatever the order of the argument keys.
KeyOrderIndependent ==
    probe.done =>
        ( ( /\ probe.a.call_id = probe.b.call_id
            /\ probe.a.tool_name = probe.b.tool_name
            /\ SameMapping(probe.a.params, probe.b.params) )
          => probe.key_a = probe.key_b )

\* two triples whose arguments differ in key order only have been fingerprinted
KeyOrderWitness ==
    /\ probe.done
    /\ probe.a.call_id = probe.b.call_id
    /\ probe.a.tool_name = probe.b.tool_name
    /\ probe.a.params # probe.b.params
    /\ SameMapping(probe.a.params, probe.b.params)
    /\ probe.key_a = probe.key_b

(***************************************************************************)
(* POST /tools: replay, envelope, unknown tools, malformed bodies.         *)
(***************************************************************************)
\* C1: once a request has completed and a result is recorded for its
\* (conversation id, tool name, arguments), a later request with the same
\* triple is answered, at
\* its lookup, with exactly the recorded result and runs no handler: the
\* lookup is its last step and writes no customer, order or call state.
ReplayReturnsRecord ==
    [][\A r \in Reqs :
          (/\ pc[r] = "check" /\ pc'[r] # "check"
           /\ Recorded(loc[r].key) # <<>>
           /\ \E q \in Reqs : Done(q) /\ loc[q].key = loc[r].key /\ loc[q].result # Nil)
          => /\ pc'[r] = "done"
             /\ IsEnvelope(resp'[r], 200, loc[r].tool_id, Recorded(loc[r].key)[1].result)
             /\ UNCHANGED <<customers, orders, redis>>]_vars

\* C3: a request whose envelope parses (it has a tool-call list and no
\* exception is raised on the way to the router or past it) is answered with
\* HTTP 200 and {results: [one entry]}, the entry carrying the id of this
\* request's own first tool call.
ParsedRequestsGetEnvelope ==
    \A r \in Reqs :
        (Done(r) /\ Parsed(r))
        => /\ resp[r].status = 200
           /\ DOMAIN resp[r].content = {"results"}
           /\ Len(resp[r].content.results) = 1
           /\ DOMAIN resp[r].content.results[1] = {"toolCallId", "result"}
           /\ resp[r].content.results[1].toolCallId = "call_" \o ToString(r)

\* a request was answered with the result another request recorded, under
\* its own toolCallId
ReplayKeepsOwnId ==
    \E q, r \in Reqs :
        /\ q # r
        /\ WasReplayed(r)
        /\ Done(q) /\ loc[q].result # Nil /\ loc[q].key = loc[r].key
        /\ resp[r].content.results[1].result = loc[q].result
        /\ resp[r].content.results[1].toolCallId = "call_" \o ToString(r)
        /\ resp[q].content.results[1].toolCallId = "call_" \o ToString(q)

\* the tool the first tool call of a body names
NamedTool(b) ==
    LET m == b.message
        call_list == IF m.toolCallList # <<>> THEN m.toolCallList ELSE m.toolCalls
    IN  IF ~b.json \/ m.k # "obj" \/ call_list = <<>> THEN None
        ELSE OrStr(call_list[1].name, call_list[1].function.name)

\* requests that are done (in the next state) and named this tool
DoneNaming(tool_name) ==
    {q \in Reqs : pc'[q] = "done" /\ Parsed(q)' /\ NamedTool(req'[q]) = tool_name}

\* what an unknown-tool request does whether or not it is a replay: no
\* customer, order or call-state write, and a 200 envelope with the literal
\* "Unknown tool: <name>" under its own id
UnknownToolReply(r) ==
    /\ UNCHANGED <<customers, orders, redis>>
    /\ pc'[r] = "done"
       => IsEnvelope(resp'[r], 200, "call_" \o ToString(r),
                     [say |-> "Unknown tool: ", tool_name |-> NamedTool(req'[r])])

IsUnknownToolStep(r) ==
    /\ pc'[r] # pc[r]
    /\ Parsed(r)'
    /\ NamedTool(req'[r]) \notin {None, CREATE, PLACE, STATUS}

\* C4 as claimed: every request naming a tool other than the three gets the
\* 200 envelope with "Unknown tool: <name>", writes nothing, and has
\* incremented the "unknown" counter of that name by the time it is done.
UnknownToolAlwaysCounted ==
    [][\A r \in Reqs :
          IsUnknownToolStep(r)
          => /\ UnknownToolReply(r)
             /\ pc'[r] = "done"
                => Count(metrics', <<NamedTool(req'[r]), "unknown">>)
                     >= Cardinality(DoneNaming(NamedTool(req'[r])))]_vars

\* C4, amended: the request gets the 200 envelope with "Unknown tool:
\* <name>" and writes nothing; it increments the "unknown" counter of that
\* name when it is dispatched, and the "duplicate" counter instead (leaving
\* "unknown" alone) when it is answered from the idempotency record.
UnknownToolCountedUnlessReplayed ==
    [][\A r \in Reqs :
          IsUnknownToolStep(r)
          => LET unknown == <<NamedTool(req'[r]), "unknown">>
                 duplicate == <<NamedTool(req'[r]), "duplicate">>
             IN  /\ UnknownToolReply(r)
                 /\ pc[r] = "route"
                    => Count(metrics', unknown) = Count(metrics, unknown) + 1
                 /\ pc[r] # "route"
                    => Count(metrics', unknown) = Count(metrics, unknown)
                 /\ (pc[r] = "check" /\ pc'[r] = "done")
                    => Count(metrics', duplicate) = Count(metrics, duplicate) + 1
                 /\ pc'[r] = "done"
                    => Count(metrics', unknown) + Count(metrics', duplicate)
                         >= Cardinality(DoneNaming(NamedTool(req'[r])))]_vars

\* an unknown-tool request was answered from the record: "Unknown tool: foo"
\* under its own id, counted as a duplicate and not as unknown
UnknownToolReplayed ==
    \E r \in Reqs :
        /\ WasReplayed(r)
        /\ NamedTool(req[r]) = FOO
        /\ IsEnvelope(resp[r], 200, "call_" \o ToString(r),
                      [say |-> "Unknown tool: ", tool_name |-> FOO])
        /\ Count(metrics, <<FOO, "duplicate">>) = 1
        /\ Count(metrics, <<FOO, "unknown">>) = 1

\* the body holds no tool-call list under message.toolCallList or
\* message.toolCalls: both are absent or empty
NoCallList(b) == b.message.toolCallList = <<>> /\ b.message.toolCalls = <<>>

\* C5: a request whose body has no tool-call list is answered with HTTP 400
\* and a bare {error} body on receipt, with no lookup, no handler and no
\* write to any table or to the call state; and no other request gets 400.
NoCallListIsBadRequest ==
    [][\A r \in Reqs :
          (pc[r] = "idle" /\ pc'[r] # "idle")
          => /\ NoCallList(req'[r])
                => /\ pc'[r] = "done"
                   /\ resp'[r].status = 400
                   /\ DOMAIN resp'[r].content = {"error"}
                   /\ UNCHANGED <<customers, orders, idem, tool_logs, redis>>
             /\ (pc'[r] = "done" /\ resp'[r].status = 400) => NoCallList(req'[r])]_vars

LookupReservesNothing ==
    [][\A r \in Reqs :
          (pc[r] = "check" /\ pc'[r] # "check")
          => /\ idem' = idem
             /\ pc'[r] \in {"route", "done"}
             /\ pc'[r] = "route"
                <=> (Len(Recorded(loc[r].key)) # 1 \/ faults' # faults)]_vars

\* two place_order requests with the same conversation id, tool name and
\* arguments both missed the lookup, no call having failed, and each
\* inserted an order
BothInserted ==
    \E q, r \in Reqs :
        /\ q # r
        /\ loc[q].key = loc[r].key
        /\ loc[q].tool_name = PLACE
        /\ loc[q].order # Nil /\ loc[r].order # Nil
        /\ loc[q].order.id # loc[r].order.id
        /\ Len(SelectSeq(orders, LAMBDA o : o.id \in {loc[q].order.id, loc[r].order.id})) = 2
        /\ faults = 0

\* C8: a save never raises and never touches what is recorded: the request
\* goes on to the log with its result, every row the table held is still
\* there unchanged, no fingerprint is in the table twice, and the request is
\* then answered with its own result in a 200 results envelope.
SaveFailureIsSilent ==
    [][\A r \in Reqs :
          /\ (pc[r] = "save" /\ pc'[r] # "save")
             => /\ pc'[r] = "log"
                /\ loc'[r].result = loc[r].result
                /\ Len(idem') >= Len(idem)
                /\ \A i \in 1..Len(idem) : idem'[i] = idem[i]
                /\ \A i, j \in 1..Len(idem') :
                      idem'[i].idempotency_key = idem'[j].idempotency_key => i = j
          /\ (pc[r] = "log" /\ pc'[r] # "log")
             => IsEnvelope(resp'[r], 200, "call_" \o ToString(r), loc[r].result)]_vars

\* the store refused a request's save, no call having failed: the request
\* was answered with its own result, and the record of its fingerprint is
\* the different result of the request that saved first
SaveRefused ==
    \E r \in Reqs :
        /\ Done(r) /\ loc[r].result # Nil /\ faults = 0
        /\ IsEnvelope(resp[r], 200, "call_" \o ToString(r), loc[r].result)
        /\ Len(Recorded(loc[r].key)) = 1
        /\ Recorded(loc[r].key)[1].result # loc[r].result

(***************************************************************************)
(* The account-then-order flow and the order status, one request after the *)
(* other.                                                                  *)
(***************************************************************************)
\* request q was a create_customer of this conversation that succeeded
CreatedAccount(q, call_id) ==
    /\ Done(q) /\ Parsed(q)
    /\ Parse(q, req[q]).tool_name = CREATE
    /\ Parse(q, req[q]).call_id = call_id
    /\ resp[q].status = 200
    /\ resp[q].content.results[1].result.say
         \in {"Perfect! Your account has been created successfully, ", "Welcome back, "}

\* the phone a create_customer or place_order request gives, in E.164
GivenPhone(r) ==
    LET given == Get(Parse(r, req[r]).params.v, "phone", S("")).s
    IN  IF given \in {"0712345678", "+254712345678"} THEN "+254712345678" ELSE given

\* request r was a place_order of this conversation for this phone with a
\* supported size and a quantity in 1..10
PlacedOrderFor(r, call_id, phone) ==
    /\ Done(r) /\ Parsed(r)
    /\ Parse(r, req[r]).tool_name = PLACE
    /\ Parse(r, req[r]).call_id = call_id
    /\ Parse(r, req[r]).params.k = "obj"
    /\ GivenPhone(r) = phone
    /\ Get(Parse(r, req[r]).params.v, "cylinder_size", S("")).s \in {"6kg", "13kg", "13KG"}
    /\ Get(Parse(r, req[r]).params.v, "quantity", N(0)).n \in 1..10

\* the reply of r is the placed-successfully sentence for the quantity and
\* size r asked for, with the total quantity x unit price, and r inserted
\* the order
OrderPlaced(r) ==
    LET a == Parse(r, req[r]).params.v
        quantity == Get(a, "quantity", N(0)).n
        size == IF Get(a, "cylinder_size", S("")).s = "6kg" THEN "6kg" ELSE "13kg"
        result == resp[r].content.results[1].result
    IN  /\ resp[r].status = 200
        /\ result.say = "Excellent! Your order has been placed successfully, "
        /\ result.quantity = quantity
        /\ result.size = size
        /\ result.total = quantity * (IF size = "6kg" THEN 1200 ELSE 2500)
        /\ loc[r].order # Nil
        /\ \E i \in 1..Len(orders) :
              /\ orders[i] = loc[r].order
              /\ orders[i].quantity = quantity
              /\ orders[i].cylinder_size = size

\* C9 as claimed: once create_customer has succeeded for a phone, every
\* later place_order of that conversation for that phone with a supported
\* size and a quantity in 1..10 inserts an order and replies with the
\* placed-successfully sentence, whatever was called before.
OrderAfterAccountAlways ==
    \A q, r \in Reqs :
        (q < r /\ CreatedAccount(q, Conv1) /\ PlacedOrderFor(r, Conv1, GivenPhone(q)))
        => OrderPlaced(r)

\* C10: whenever get_order_status runs for a customer who has an order, the
\* sentence it returns carries the first 8 characters of the id of the last
\* order inserted for that customer, that order's quantity, size and total
\* as the store holds them, and the phrase of its status ("is being
\* processed" for pending).
StatusReportsLatestOrder ==
    [][\A r \in Reqs :
          LET mine == SelectSeq(orders, LAMBDA o : o.customer_id = loc[r].customer.id)
              last == mine[Len(mine)]
          IN  (pc[r] = "gs_order" /\ pc'[r] # "gs_order" /\ mine # <<>>)
              => /\ pc'[r] = "save"
                 /\ loc'[r].result.say = "I found your most recent order, "
                 /\ loc'[r].result.short_id = SubSeq(last.id, 1, 8)
                 /\ loc'[r].result.quantity = last.quantity
                 /\ loc'[r].result.size = last.cylinder_size
                 /\ loc'[r].result.total = last.total_amount_kes
                 /\ last.status = "pending"
                    => loc'[r].result.status_text = "is being processed"]_vars

\* get_order_status ran for a customer with two orders and was answered
\* with the second one
SecondOrderReported ==
    \E r \in Reqs :
        /\ Done(r) /\ loc[r].tool_name = STATUS /\ loc[r].order # Nil
        /\ Len(SelectSeq(orders, LAMBDA o : o.customer_id = loc[r].customer.id)) = 2
        /\ loc[r].order = orders[2]
        /\ resp[r].content.results[1].result.short_id = SubSeq(orders[2].id, 1, 8)
        /\ resp[r].content.results[1].result.short_id # SubSeq(orders[1].id, 1, 8)
        /\ resp[r].content.results[1].result.status_text = "is being processed"

(***************************************************************************)
(* place_order: the quantity and the size.                                 *)
(***************************************************************************)
\* the quantity argument is a number, or a text that spells one
IsNumber(v) == v.t = "str" => v.s \in DOMAIN IntText

\* the integer a numeric quantity argument stands for; an infinite number is
\* above every limit
QuantityMeant(v) ==
    IF v.t = "str" THEN IntText[v.s]
    ELSE IF v.t = "float" /\ v.s = "Infinity" THEN MaxQuantity + 1
    ELSE v.n

\* request r is a place_order with a phone and a valid size, and this step
\* runs its handler up to the customer lookup
QuantityStep(r) ==
    /\ pc[r] = "route" /\ pc'[r] # "route"
    /\ loc[r].tool_name = PLACE
    /\ loc[r].params.k = "obj"
    /\ StrArg(loc[r].params, "phone") = PhoneLocal
    /\ Get(loc[r].params.v, "cylinder_size", S("")) \in {S("6kg"), S("13kg"), S("13KG")}

Refused(r, text) ==
    /\ pc'[r] = "save"
    /\ loc'[r].result = Say(text)
    /\ loc'[r].order = Nil
    /\ orders' = orders

\* C11: a place_order goes on to the customer lookup exactly when its
\* quantity parses to an integer from 1 to 10; a quantity of zero or less is
\* answered "Quantity must be greater than zero.", one above 10 with the
\* contact-sales sentence, one that is no number with the valid-number
\* sentence, and a refused quantity inserts no order
QuantityRule ==
    [][\A r \in Reqs :
        QuantityStep(r) =>
            LET v == Get(loc[r].params.v, "quantity", N(0))
                q == QuantityMeant(v)
            IN  IF ~IsNumber(v)
                THEN Refused(r, "Please provide a valid number for quantity.")
                ELSE IF q <= 0 THEN Refused(r, "Quantity must be greater than zero.")
                ELSE IF q > MaxQuantity
                THEN Refused(r, "For orders above 10 cylinders, please contact our sales team directly.")
                ELSE pc'[r] = "po_select" /\ loc'[r].quantity = q]_vars

\* request r is a place_order with a phone and a quantity from 1 to 10, and
\* this step runs its handler up to the customer lookup
SizeStep(r) ==
    /\ pc[r] = "route" /\ pc'[r] # "route"
    /\ loc[r].tool_name = PLACE
    /\ loc[r].params.k = "obj"
    /\ StrArg(loc[r].params, "phone") = PhoneLocal
    /\ Get(loc[r].params.v, "quantity", N(0)) \in {N(1), N(2), N(10)}

\* the size argument is "6kg" or "13kg" up to the case of its letters
SizeNamed(v) == v.t = "str" /\ Lower(v.s) \in VALID_CYLINDER_SIZES

\* C12: a place_order goes past the size check exactly when its size is,
\* compared case-insensitively, "6kg" or "13kg", and then carries the size in
\* lower case; any other size is answered with the sentence naming the two
\* valid choices and inserts no order
SizeRule ==
    [][\A r \in Reqs :
        SizeStep(r) =>
            LET v == Get(loc[r].params.v, "cylinder_size", S(""))
            IN  IF SizeNamed(v)
                THEN pc'[r] = "po_select" /\ loc'[r].size = Lower(v.s)
                ELSE Refused(r, "Invalid cylinder size. Please choose either 6kg or 13kg.")]_vars

(***************************************************************************)
(* create_customer.                                                        *)
(***************************************************************************)
\* request r is in its handler for this tool, with an object of arguments
Handling(r, tool_name) ==
    /\ pc[r] \notin {"idle", "done"}
    /\ loc[r].tool_name = tool_name
    /\ loc[r].params.k = "obj"

\* the step is one of request r
StepOf(r) == pc'[r] # pc[r]

Blank(x) == x \in {"", " ", "  "}

\* the first of name, phone, address that is missing: the name when it is
\* empty or blank, the phone or the address when it is empty
MissingField(params) ==
    IF Blank(StrArg(params, "name")) THEN "name"
    ELSE IF StrArg(params, "phone") = "" THEN "phone"
    ELSE IF StrArg(params, "address") = "" THEN "address"
    ELSE "none"

PromptFor(field) ==
    IF field = "name"
    THEN Say("I need your name to create an account. Could you please tell me your name?")
    ELSE IF field = "phone"
    THEN Say("I need your phone number to create an account. Could you please provide it?")
    ELSE Say("I need your delivery address to create an account. Could you please provide your address?")

\* C13: a create_customer whose name is empty or blank, or whose phone or
\* address is empty, is answered with the prompt for the first such field
\* (name, then phone, then address); no step of it inserts or updates a
\* customer row or changes the call state
MissingFieldPrompted ==
    [][\A r \in Reqs :
        (Handling(r, CREATE) /\ StepOf(r) /\ MissingField(loc[r].params) # "none")
        => /\ customers' = customers
           /\ redis' = redis
           /\ pc[r] = "route"
              => pc'[r] = "save" /\ loc'[r].result = PromptFor(MissingField(loc[r].params))
           /\ pc'[r] = "done"
              => IsEnvelope(resp'[r], 200, loc[r].tool_id, PromptFor(MissingField(loc[r].params)))]_vars

\* a create_customer with a name but neither phone nor address was asked for
\* the phone, and a later one with a blank name for the name; nothing was
\* written
MissingFieldsAsked ==
    \E q, r \in Reqs :
        /\ Done(q) /\ Done(r) /\ q < r
        /\ loc[q].tool_name = CREATE /\ loc[r].tool_name = CREATE
        /\ StrArg(loc[q].params, "name") = "Asha"
        /\ StrArg(loc[q].params, "phone") = "" /\ StrArg(loc[q].params, "address") = ""
        /\ StrArg(loc[r].params, "name") = "  "
        /\ IsEnvelope(resp[q], 200, loc[q].tool_id, PromptFor("phone"))
        /\ IsEnvelope(resp[r], 200, loc[r].tool_id, PromptFor("name"))
        /\ customers = <<>> /\ redis = <<>>

\* the handler of request r is about to reply with this sentence: it is
\* kept while the call state is written, or handed to the router at once
Replying(r, sentence) ==
    \/ pc'[r] = "state_get" /\ loc'[r].pending = sentence
    \/ pc'[r] = "save" /\ loc'[r].result = sentence

\* the sentence the handler kept is the one the request answers with
RepliedAsKept(r) ==
    /\ pc[r] = "state_set" => loc'[r].result = loc[r].pending
    /\ (pc'[r] = "done" /\ loc[r].result # Nil)
       => IsEnvelope(resp'[r], 200, loc[r].tool_id, loc[r].result)

\* the fields create_customer stores
Stored(row, params) ==
    /\ row.name = Strip(StrArg(params, "name"))
    /\ row.address = Strip(StrArg(params, "address"))
    /\ row.email = (IF HasKey(params.v, "email") THEN StrArg(params, "email") ELSE Null)

\* C14: a create_customer with name, phone and address whose normalized
\* phone has a customer row updates the name, address and email of that row,
\* inserts no row and replies "Welcome back"; one whose phone has no row
\* inserts exactly one row and replies "created successfully"
FoundOrCreated ==
    [][\A r \in Reqs :
        (Handling(r, CREATE) /\ StepOf(r) /\ MissingField(loc[r].params) = "none")
        => LET phone == normalize_phone(StrArg(loc[r].params, "phone"))
               found == \E i \in 1..Len(customers) : customers[i].phone = phone
               name == Strip(StrArg(loc[r].params, "name"))
           IN  /\ pc[r] = "cc_select" => pc'[r] = (IF found THEN "cc_update" ELSE "cc_insert")
               /\ pc[r] = "cc_update"
                  => /\ Len(customers') = Len(customers)
                     /\ \A i \in 1..Len(customers) :
                           IF customers[i].phone = phone
                           THEN /\ Stored(customers'[i], loc[r].params)
                                /\ customers'[i].id = customers[i].id
                                /\ customers'[i].phone = phone
                           ELSE customers'[i] = customers[i]
                     /\ Replying(r, WelcomeBack(name))
               /\ pc[r] = "cc_insert"
                  => /\ Len(customers') = Len(customers) + 1
                     /\ SubSeq(customers', 1, Len(customers)) = customers
                     /\ Stored(customers'[Len(customers')], loc[r].params)
                     /\ customers'[Len(customers')].phone = phone
                     /\ Replying(r, Created(name))
               /\ pc[r] \notin {"cc_update", "cc_insert"} => customers' = customers
               /\ RepliedAsKept(r)]_vars

\* the customer Asha of Nairobi was created, and a later create_customer
\* with the same number made her row Wanjiru of Mombasa with an email, and
\* was answered "Welcome back"
CustomerFoundAgain ==
    \E q, r \in Reqs :
        /\ Done(q) /\ Done(r) /\ q < r
        /\ IsEnvelope(resp[q], 200, loc[q].tool_id, Created("Asha"))
        /\ IsEnvelope(resp[r], 200, loc[r].tool_id, WelcomeBack("Wanjiru"))
        /\ Len(customers) = 1
        /\ customers[1].name = "Wanjiru" /\ customers[1].address = "Mombasa"
        /\ customers[1].email = "w@example.com"
        /\ customers[1].phone = PhoneE164

(***************************************************************************)
(* place_order: the customer.                                              *)
(***************************************************************************)
CreateAccountFirst ==
    Say("I couldn't find your account. Please let me create one for you first. Could you please provide your full name and delivery address?")

\* C15: no step of a place_order changes the customers table; when its
\* customer lookup is answered and finds no row for the resolved phone, the
\* place_order returns the create-an-account-first sentence and inserts no
\* order
PlaceNeedsCustomer ==
    [][\A r \in Reqs :
        (Handling(r, PLACE) /\ StepOf(r))
        => /\ customers' = customers
           /\ pc[r] # "po_insert" => orders' = orders
           /\ (/\ pc[r] = "po_select"
               /\ faults' = faults
               /\ \A i \in 1..Len(customers) : customers[i].phone # loc[r].phone)
              => /\ pc'[r] = "save"
                 /\ loc'[r].result = CreateAccountFirst
                 /\ loc'[r].order = Nil]_vars

\* a place_order was refused for want of an account, the account was then
\* created and a further place_order inserted an order for it: the
\* customers table holds the one row create_customer inserted, as inserted
RefusedThenServed ==
    \E p, q, r \in Reqs :
        /\ Done(p) /\ Done(q) /\ Done(r)
        /\ IsEnvelope(resp[p], 200, loc[p].tool_id, CreateAccountFirst)
        /\ loc[p].order = Nil
        /\ loc[q].tool_name = CREATE /\ loc[q].customer # Nil
        /\ loc[r].tool_name = PLACE /\ loc[r].order # Nil
        /\ customers = <<loc[q].customer>>
        /\ Len(orders) = 1 /\ orders[1].customer_id = customers[1].id

(***************************************************************************)
(* The call state.                                                         *)
(***************************************************************************)
\* request r writes its merged call state in this step
Writes(r) == pc[r] = "state_set" /\ StepOf(r)

\* the call state of a conversation is stored and its window is not over
InWindow(call_id) ==
    /\ CallKey(call_id) \in DOMAIN redis
    /\ clock < redis[CallKey(call_id)].expires

NeedPhoneForStatus == Say("I need your phone number to check your order status.")

Current(call_id) ==
    IF InWindow(call_id) THEN redis[CallKey(call_id)].value ELSE <<>>

\* a state overlaid with a partial one
Overlay(state, partial) ==
    [k \in DOMAIN state \cup DOMAIN partial |->
        IF k \in DOMAIN partial THEN partial[k] ELSE state[k]]

\* C17: an update reads the state of its conversation, the empty mapping
\* when nothing is stored or the entry expired, and writes it overlaid with
\* the partial state: the keys of the partial state take the new values,
\* every other stored key keeps its value; a get after the update returns
\* what was written, and the write changes no other conversation's state
CallStateContract ==
    [][\A r \in Reqs :
        StepOf(r)
        => /\ pc[r] = "state_get"
              => loc'[r].state = Overlay(Current(loc[r].call_id), loc[r].updates)
           /\ pc[r] = "state_set"
              => /\ Current(loc[r].call_id)' = loc[r].state
                 /\ DOMAIN redis' = DOMAIN redis \cup {CallKey(loc[r].call_id)}
                 /\ \A k \in DOMAIN redis :
                       k # CallKey(loc[r].call_id) => redis'[k] = redis[k]]_vars

\* the state of one conversation holds the phone create_customer cached and
\* the order place_order cached after it, while the state of another
\* conversation holds no order
CallStatesMerged ==
    /\ InWindow(Conv1) /\ InWindow(Conv2)
    /\ DOMAIN Current(Conv1) =
          {"customer_id", "customer_phone", "customer_name", "last_order_id", "last_order_total"}
    /\ Current(Conv1).customer_phone = PhoneE164
    /\ Current(Conv1).last_order_id = orders[1].id
    /\ DOMAIN Current(Conv2) = {"customer_id", "customer_phone", "customer_name"}
    /\ \A r \in Reqs : pc[r] \in {"idle", "done"}

(***************************************************************************)
(* place_order: the phone.                                                 *)
(***************************************************************************)
\* the three sources of the phone of a place_order
GivenPhoneOf(r) == StrArg(loc[r].params, "phone")

CachedPhoneOf(r) ==
    IF "customer_phone" \in DOMAIN Current(loc[r].call_id)
    THEN Current(loc[r].call_id).customer_phone ELSE ""

PhoneByIdOf(r) ==
    LET named == {i \in 1..Len(customers) :
                    customers[i].id = UuidOf(StrArg(loc[r].params, "customer_id"))}
    IN  IF named = {} THEN "" ELSE customers[CHOOSE i \in named : TRUE].phone

ResolvedPhoneOf(r) ==
    IF GivenPhoneOf(r) # "" THEN GivenPhoneOf(r)
    ELSE IF CachedPhoneOf(r) # "" THEN CachedPhoneOf(r)
    ELSE PhoneByIdOf(r)

NeedPhoneForOrder ==
    Say("I need your phone number to place the order. Could you please provide it?")

\* C18: a place_order takes the phone argument when it is not empty, else
\* the customer_phone cached for its conversation, else the phone of the
\* customer its customer_id argument names; it reads the call state only
\* when no phone is given, and looks the customer_id up only when no phone
\* is cached either; with no phone from any of the three it returns the
\* need-phone prompt and inserts no order
PhonePriority ==
    [][\A r \in Reqs :
        (Handling(r, PLACE) /\ StepOf(r))
        => /\ pc'[r] = "po_state" => GivenPhoneOf(r) = ""
           /\ pc'[r] = "po_cid" => GivenPhoneOf(r) = "" /\ CachedPhoneOf(r) = ""
           /\ pc'[r] = "po_select" => loc'[r].phone = normalize_phone(ResolvedPhoneOf(r))
           /\ (pc[r] \in {"route", "po_state", "po_cid"} /\ pc'[r] \notin {"po_state", "po_cid"}
               /\ normalize_phone(ResolvedPhoneOf(r)) = "")
              => /\ pc'[r] = "save"
                 /\ loc'[r].result = NeedPhoneForOrder
                 /\ loc'[r].order = Nil
                 /\ orders' = orders
           /\ (pc'[r] = "save" /\ loc'[r].result = NeedPhoneForOrder)
              => normalize_phone(ResolvedPhoneOf(r)) = ""]_vars

\* a place_order with no phone and no cached phone got an order for the
\* customer its customer_id names
OrderedByCustomerId ==
    \E r \in Reqs :
        /\ Done(r) /\ loc[r].tool_name = PLACE
        /\ GivenPhoneOf(r) = "" /\ CachedPhoneOf(r) = ""
        /\ loc[r].order # Nil
        /\ loc[r].order.customer_id = UuidOf(StrArg(loc[r].params, "customer_id"))
        /\ loc[r].phone = PhoneByIdOf(r)

(***************************************************************************)
(* Failures.                                                               *)
(***************************************************************************)
\* the sentence carries the text of an exception
CarriesError(sentence) == "error" \in DOMAIN sentence

\* C19: no reply carries the text of a caught exception: the result of every
\* answered request, and the error of a reply without results, is a fixed
\* sentence
NoFailureDetail ==
    \A r \in Reqs :
        Done(r)
        => IF "results" \in DOMAIN resp[r].content
           THEN ~CarriesError(resp[r].content.results[1].result)
           ELSE ~CarriesError(resp[r].content.error)

TroubleAccessingDatabase ==
    Say("I'm having trouble accessing the database. Please try again in a moment.")

\* the step is a store call of the handler of request r, and the call fails
StoreFails(r) ==
    /\ StepOf(r)
    /\ pc[r] \in {"cc_select", "cc_update", "cc_insert", "po_select", "po_insert",
                  "gs_cust", "gs_order"}
    /\ faults' = faults + 1

\* C20: when a store call of a handler fails (the customer upsert, the order
\* insert, a customer or order lookup), the request is answered 200 with the
\* results envelope and the sentence "I'm having trouble accessing the
\* database. Please try again in a moment."
StoreFailureIsGeneric ==
    [][\A r \in Reqs :
        StoreFails(r)
        => \/ pc'[r] = "save" /\ loc'[r].result = TroubleAccessingDatabase
           \/ pc'[r] = "done"
              /\ IsEnvelope(resp'[r], 200, loc[r].tool_id, TroubleAccessingDatabase)]_vars

(***************************************************************************)
(* get_order_status.                                                       *)
(***************************************************************************)
NoAccountForStatus ==
    Say("I couldn't find an account with that phone number. Would you like me to create one for you first?")

\* the handler of request r ends in this step with this sentence
Returns(r, sentence) == pc'[r] = "save" /\ loc'[r].result = sentence

\* C21: a get_order_status with no phone argument and no cached phone
\* returns the need-phone prompt, one with a phone that no customer has
\* returns the prompt offering to create an account, one for a customer
\* without orders returns the no-orders prompt; no step of a
\* get_order_status writes to the customers table, the orders table or the
\* call state
StatusByCase ==
    [][\A r \in Reqs :
        (Handling(r, STATUS) /\ StepOf(r))
        => /\ UNCHANGED <<customers, orders, redis>>
           /\ (/\ pc[r] \in {"route", "gs_state"} /\ pc'[r] # "gs_state"
               /\ GivenPhoneOf(r) = "" /\ CachedPhoneOf(r) = "")
              => Returns(r, NeedPhoneForStatus)
           /\ (/\ pc[r] = "gs_cust"
               /\ \A i \in 1..Len(customers) : customers[i].phone # loc[r].phone)
              => Returns(r, NoAccountForStatus)
           /\ (/\ pc[r] = "gs_order"
               /\ \A i \in 1..Len(orders) : orders[i].customer_id # loc[r].customer.id)
              => Returns(r, NoOrders(loc[r].customer.name))]_vars

\* the phrase of a stored status
PhraseOf(status) ==
    IF status = "pending" THEN "is being processed"
    ELSE IF status = "confirmed" THEN "has been confirmed"
    ELSE IF status = "out_for_delivery" THEN "is out for delivery"
    ELSE IF status = "delivered" THEN "has been delivered"
    ELSE IF status = "cancelled" THEN "has been cancelled"
    ELSE "is in progress"

\* C22: the sentence get_order_status returns for an order carries the
\* phrase of the order's stored status ("is in progress" for a status
\* outside the five known ones), and for its delivery date the stored date,
\* or "soon" when the order has none
StatusRendering ==
    [][\A r \in Reqs :
          LET mine == SelectSeq(orders, LAMBDA o : o.customer_id = loc[r].customer.id)
              last == mine[Len(mine)]
          IN  (pc[r] = "gs_order" /\ pc'[r] = "save" /\ faults' = faults /\ mine # <<>>)
              => /\ loc'[r].result.status_text = PhraseOf(last.status)
                 /\ loc'[r].result.deliver_on =
                       (IF last.delivery_date = Null THEN "soon" ELSE last.delivery_date)]_vars

(***************************************************************************)
(* The cache failing.                                                      *)
(***************************************************************************)
\* C23: whether the call of the cache fails or not, and whatever the cache
\* holds, a step that reads or writes the call state for a create_customer,
\* or for a get_order_status with a phone argument, goes on the same way:
\* the update's read is followed by its write, the write by the reply that
\* was made when the customer was stored, the read of get_order_status by
\* the customer lookup for the given phone; a place_order with a phone
\* argument does not read the call state; none of these steps writes a
\* customer or an order, and none ends in a sentence with an error
CacheIsBestEffort ==
    [][\A r \in Reqs :
        (/\ StepOf(r)
         /\ Handling(r, CREATE) \/ Handling(r, PLACE) \/ Handling(r, STATUS)
         /\ GivenPhoneOf(r) # "")
        => /\ pc'[r] # "po_state"
           /\ pc[r] \in {"state_get", "state_set", "gs_state"}
              => /\ UNCHANGED <<customers, orders>>
                 /\ pc[r] = "state_get" => pc'[r] = "state_set" /\ loc'[r].pending = loc[r].pending
                 /\ pc[r] = "state_set" => Returns(r, loc[r].pending)
                 /\ pc[r] = "gs_state"
                    => /\ pc'[r] = "gs_cust"
                       /\ loc'[r].phone = normalize_phone(GivenPhoneOf(r))
                 /\ pc'[r] = "save" => ~CarriesError(loc'[r].result)]_vars

\* the cache failed twice and holds nothing; create_customer was answered
\* "created successfully" all the same, and a place_order with the phone
\* got its order
ServedWithoutCache ==
    \E q, r \in Reqs :
        /\ Done(q) /\ Done(r) /\ q < r
        /\ faults = MaxOutage /\ redis = <<>>
        /\ HasCallId(loc[q].call_id) /\ HasCallId(loc[r].call_id)
        /\ IsEnvelope(resp[q], 200, loc[q].tool_id, Created("Asha"))
        /\ loc[r].tool_name = PLACE /\ GivenPhoneOf(r) # ""
        /\ loc[r].order # Nil /\ orders = <<loc[r].order>>
        /\ "total" \in DOMAIN resp[r].content.results[1].result

(***************************************************************************)
(* Concurrent updates of the call state.                                   *)
(***************************************************************************)
\* C24: a write of the call state that the cache accepts stores the state
\* the writing request merged from what it read, whatever another request
\* of the conversation stored in between: the last writer wins
LastWriterWins ==
    [][\A r \in Reqs :
        (Writes(r) /\ faults' = faults)
        => Current(loc[r].call_id)' = loc[r].state]_vars

\* create_customer cached the phone of the conversation while a place_order
\* of the same conversation was between its read and its write: both were
\* answered with success, and the stored state holds the order but no
\* customer_phone
UpdateLost ==
    \E q, r \in Reqs :
        /\ Done(q) /\ Done(r)
        /\ loc[q].call_id = Conv1 /\ loc[r].call_id = Conv1
        /\ loc[q].tool_name = CREATE /\ loc[q].customer # Nil
        /\ "customer_phone" \in DOMAIN loc[q].state
        /\ loc[r].tool_name = PLACE /\ loc[r].order # Nil
        /\ faults = 0
        /\ InWindow(Conv1)
        /\ DOMAIN Current(Conv1) = {"last_order_id", "last_order_total", "customer_id"}

(***************************************************************************)
(* The tables.                                                             *)
(***************************************************************************)
\* C25: in every reachable state the customers table holds at most one row
\* for a phone
PhonesUnique ==
    \A i, j \in 1..Len(customers) : customers[i].phone = customers[j].phone => i = j

AlreadyHaveAccount ==
    Say("It looks like you already have an account with this phone number. You can proceed to place an order.")

\* two create_customer calls for the same new phone both found no row; one
\* inserted it, the other was refused by the store and answered that the
\* account exists
SecondInsertRefused ==
    \E q, r \in Reqs :
        /\ q # r /\ Done(q) /\ Done(r)
        /\ loc[q].tool_name = CREATE /\ loc[r].tool_name = CREATE
        /\ loc[q].phone = loc[r].phone
        /\ IsEnvelope(resp[q], 200, loc[q].tool_id, Created("Asha"))
        /\ IsEnvelope(resp[r], 200, loc[r].tool_id, AlreadyHaveAccount)
        /\ faults = 0
        /\ Len(customers) = 1

(***************************************************************************)
(* The identity of the caller across the turns of a conversation.          *)
(***************************************************************************)
\* the result of the reply to request r
ResultOf(r) == resp[r].content.results[1].result

\* C26: the write of the call state that ends a successful create_customer
\* stores the customer's id, phone and name, the one that ends a successful
\* place_order stores the order's id and total; and a place_order or
\* get_order_status without a phone argument that is answered while the
\* state of its conversation holds a cached phone and has not expired is
\* never answered with a need-phone prompt
IdentityThreaded ==
    [][\A r \in Reqs :
        StepOf(r)
        => /\ (Writes(r) /\ loc[r].tool_name = CREATE)
              => /\ Current(loc[r].call_id)'.customer_id = loc[r].customer.id
                 /\ Current(loc[r].call_id)'.customer_phone = loc[r].customer.phone
                 /\ Current(loc[r].call_id)'.customer_name = loc[r].customer.name
           /\ (Writes(r) /\ loc[r].tool_name = PLACE)
              => /\ Current(loc[r].call_id)'.last_order_id = loc[r].order.id
                 /\ Current(loc[r].call_id)'.last_order_total = loc[r].order.total_amount_kes
           /\ (/\ pc'[r] = "done"
               /\ loc'[r].tool_name \in {PLACE, STATUS}
               /\ loc'[r].params.k = "obj"
               /\ StrArg(loc'[r].params, "phone") = ""
               /\ InWindow(loc'[r].call_id)
               /\ "customer_phone" \in DOMAIN Current(loc'[r].call_id))
              => ResultOf(r)' \notin {NeedPhoneForOrder, NeedPhoneForStatus}]_vars

(***************************************************************************)
(* The rows of the orders table.                                           *)
(***************************************************************************)
\* an order row as db_insert_order builds it from a validated size and quantity
WellFormed(order) ==
    /\ order.cylinder_size \in {"6kg", "13kg"}
    /\ order.quantity \in 1..10
    /\ order.price_kes = (IF order.cylinder_size = "6kg" THEN 1200 ELSE 2500)
    /\ order.total_amount_kes = order.price_kes * order.quantity
    /\ order.status = "pending"

\* C27: every order row has a size of 6kg or 13kg, a quantity in 1..10, the
\* unit price of its size, a total of unit price times quantity and the
\* status pending; a row that place_order inserts references a customer row
\* that existed when it was inserted; and the total in the reply of a
\* place_order equals the total of the row it inserted
OrdersWellFormed ==
    [][/\ \A i \in 1..Len(orders') :
            /\ WellFormed(orders'[i])
            /\ i > Len(orders)
               => \E j \in 1..Len(customers) : customers[j].id = orders'[i].customer_id
       /\ \A r \in Reqs :
            (pc'[r] = "save" /\ pc[r] # "save" /\ loc'[r].order # Nil)
            => loc'[r].result.total = loc'[r].order.total_amount_kes]_vars

\* an order of two 13kg cylinders, asked for as "13KG", is stored and its
\* total of 5000 is in the reply
OrderStoredAndSpoken ==
    \E r \in Reqs :
        /\ Done(r)
        /\ loc[r].order # Nil
        /\ \E i \in 1..Len(orders) : orders[i] = loc[r].order
        /\ loc[r].order.cylinder_size = "13kg"
        /\ loc[r].order.total_amount_kes = 5000
        /\ ResultOf(r).total = 5000

(***************************************************************************)
(* The records of tool_call_idempotency over time.                         *)
(***************************************************************************)
\* C28: a recorded result stays: no step removes or changes a row of the
\* idempotency table, whatever else is recorded, and every lookup of a
\* fingerprint that has a record ends the request with that record's result
RecordsAreStable ==
    [][/\ Len(idem') >= Len(idem)
       /\ \A i \in 1..Len(idem) : idem'[i] = idem[i]
       /\ \A r \in Reqs :
            (pc[r] = "check" /\ pc'[r] # "check" /\ Recorded(loc[r].key) # <<>>)
            => /\ pc'[r] = "done"
               /\ ResultOf(r)' = Recorded(loc[r].key)[1].result]_vars

(***************************************************************************)
(* What a request leaves in the idempotency table.                         *)
(***************************************************************************)
\* request q ran its tool and was answered
Executed(q) == Done(q) /\ Parsed(q) /\ loc[q].result # Nil

\* C29: a request that missed the lookup and went through the router has,
\* once its save is over, a record under its fingerprint, and the record is
\* its own result when the fingerprint had none, whatever the result is; a
\* request identical to one that was executed and answered is answered from
\* the record at its lookup, its handler not run; and a request answered at
\* its lookup writes no idempotency record and no tool log
EveryResultIsRecorded ==
    [][\A r \in Reqs :
        /\ (pc[r] = "save" /\ pc'[r] # "save")
           => /\ Recorded(loc[r].key)' # <<>>
              /\ Recorded(loc[r].key) = <<>>
                 => Recorded(loc[r].key)'[1].result = loc[r].result
        /\ (/\ pc[r] = "check" /\ pc'[r] # "check"
            /\ \E q \in Reqs : Executed(q) /\ loc[q].key = loc[r].key)
           => pc'[r] = "done"
        /\ (pc[r] = "check" /\ pc'[r] = "done")
           => idem' = idem /\ tool_logs' = tool_logs]_vars

(***************************************************************************)
(* The fingerprints of different requests.                                 *)
(***************************************************************************)
\* C30: two triples that differ in the conversation id, in the tool name or
\* in the key/value pairs of the arguments get different fingerprints, the
\* digest taken as injective
FingerprintSeparates ==
    probe.done =>
        ( ( \/ probe.a.call_id # probe.b.call_id
            \/ probe.a.tool_name # probe.b.tool_name
            \/ ~SameMapping(probe.a.params, probe.b.params) )
          => probe.key_a # probe.key_b )

(***************************************************************************)
(* The customer a call state names.                                        *)
(***************************************************************************)
\* C31: whenever the live call state of a conversation holds both
\* customer_id and customer_phone, one customer row has that id and that
\* phone
CallStateConsistent ==
    \A key \in DOMAIN redis :
        (/\ RedisLive(key)
         /\ {"customer_id", "customer_phone"} \subseteq DOMAIN redis[key].value)
        => \E i \in 1..Len(customers) :
              /\ customers[i].id = redis[key].value.customer_id
              /\ customers[i].phone = redis[key].value.customer_phone

====
